---------------------------- MODULE Spec2Model ----------------------------
(***************************************************************************)
(* A model of the product scraper (src/scraper.py), of the part of the    *)
(* background job (src/routes.py) that drives it, of the product enhancer  *)
(* (src/ai_enhancer.py) and of the exporters (src/export_utils.py).        *)
(*                                                                         *)
(*   SpecJsonLd  the scan of a page's JSON-LD script blocks                *)
(*               (_extract_json_ld_products, _parse_json_ld_product)       *)
(*   SpecScrape  the pagination loop (scrape_products and                  *)
(*               scrape_products_with_progress) with the job record, the   *)
(*               pause and cancel requests and run_scraping_job around it  *)
(*   SpecUrl     the page URLs (_build_page_url,                           *)
(*               _extract_page_number_from_url, _has_next_page)            *)
(*   SpecPrice   _clean_price                                              *)
(*   SpecContainer  _extract_container_products                            *)
(*   SpecEnhance    AIEnhancer.enhance_product, one step at a time         *)
(*   SpecExport     export_to_csv, export_to_json, export_to_xml           *)
(*                                                                         *)
(* Python values: a str is a TLA+ string, None is the string PyNone, a     *)
(* list is a sequence, a dict is a function on its keys.  A value whose    *)
(* Python type the code tests with isinstance is tagged: [t, v].           *)
(***************************************************************************)
EXTENDS Integers, Sequences, FiniteSets, TLC

VARIABLES
    \* ---- SpecJsonLd ----
    ld_scripts,     \* soup.find_all('script', type='application/ld+json')
    ld_idx,         \* how many scripts the for loop has taken
    ld_products,    \* products
    ld_pc,          \* "scan" | "returned"
    \* ---- SpecScrape ----
    mode,           \* "plain": scrape_products; "progress": run_scraping_job;
                    \* "norow": scrape_products_with_progress for a job id
                    \* without a row
    pc,             \* position of the thread
    current_page,   \* current_page
    all_products,   \* all_products
    page_products,  \* page_products of the last fetched page
    soup,           \* the parsed page of the last fetch
    job,            \* the ScrapingJob row, or NoJob
    outcome,        \* how the scraper call ended: "none" | "returned" | "raised"
    result,         \* the list the scraper call returned
    error,          \* the exception the scraper call raised
    fetched,        \* history: the page numbers fetched, in order
    yields,         \* history: page_products of every fetched page
    signals,        \* history: _has_next_page of every fetched page with products
    ran,            \* history: the strategies run on the last fetched page
    polled,         \* history: the last poll, [page, status]; page 0: none yet
    store_failures, \* history: how many commits of the scraper have failed
    rich_pages,     \* history: how many fetched pages were no plain listing
    \* ---- SpecUrl ----
    url_base,       \* base_url
    url_page,       \* page_number
    url_built,      \* the page URL _build_page_url returned
    url_num,        \* the page number _extract_page_number_from_url read from it
    url_soup,       \* the page _has_next_page is asked about
    url_next,       \* what _has_next_page returned
    url_pc,         \* "build" | "parse" | "next" | "done"
    \* ---- SpecPrice ----
    price_arg,      \* price_text, the argument of _clean_price
    price_clean,    \* _clean_price(price_text)
    price_again,    \* _clean_price of that
    price_pc,       \* "clean" | "again" | "done"
    \* ---- SpecContainer ----
    ct_soup,        \* soup
    ct_products,    \* what _extract_container_products returned
    ct_pc,          \* "extract" | "done"
    \* ---- SpecEnhance ----
    enh_product,    \* product_data
    enh_original,   \* history: product_data as the caller passed it
    enh_data,       \* enhanced_data
    enh_pc,         \* the step enhance_product is at
    enh_outcome,    \* "none" | "returned" | "raised"
    enh_result,     \* the mapping enhance_product returned
    enh_failed,     \* history: the steps in which a call or an operation failed
    \* ---- SpecExport ----
    exp_format,     \* "csv" | "json" | "xml": the exporter called
    exp_products,   \* products_data
    exp_job_identifier, \* job_identifier
    exp_files,      \* the files of the export directory
    exp_before,     \* history: the files when the exporter was called
    exp_clock,      \* datetime.now(), in seconds
    exp_calls,      \* history: how many exporter calls were made
    exp_outcome,    \* "none" | "returned" | "raised"
    exp_pc,         \* the step the exporter is at
    \* ---- SpecImages ----
    img_page,       \* the page: a JSON-LD item, a container element, the soup
    img_strategy,   \* the extractor called
    img_products,   \* the products it emitted
    img_pc,         \* "start" | "done"
    \* ---- SpecRequests ----
    req_job,        \* the ScrapingJob row
    req_kind,       \* the last request: "none" | "pause" | "resume" | "cancel"
    req_before,     \* history: the row when the last request arrived
    req_answer,     \* the status code of the last answer, 0: none yet
    req_started,    \* history: the background threads the requests started
    req_clock,      \* datetime.utcnow()
    \* ---- SpecRun ----
    run_job,        \* the ScrapingJob row
    run_site,       \* the site: how many products each of its pages lists
    run_threads,    \* the background threads: [pc, page, data, index]
    run_products    \* how many Product rows the job has

ldVars == <<ld_scripts, ld_idx, ld_products, ld_pc>>
scrapeVars == <<mode, pc, current_page, all_products, page_products, soup, job,
                outcome, result, error, fetched, yields, signals, ran, polled,
                store_failures, rich_pages>>
urlVars == <<url_base, url_page, url_built, url_num, url_soup, url_next, url_pc>>
priceVars == <<price_arg, price_clean, price_again, price_pc>>
ctVars == <<ct_soup, ct_products, ct_pc>>
enhVars == <<enh_product, enh_original, enh_data, enh_pc, enh_outcome, enh_result,
             enh_failed>>
expVars == <<exp_format, exp_products, exp_job_identifier, exp_files, exp_before, exp_clock, exp_calls,
             exp_outcome, exp_pc>>
imgVars == <<img_page, img_strategy, img_products, img_pc>>
reqVars == <<req_job, req_kind, req_before, req_answer, req_started, req_clock>>
runVars == <<run_job, run_site, run_threads, run_products>>
vars == <<ldVars, scrapeVars, urlVars, priceVars, ctVars, enhVars, expVars, imgVars,
         reqVars, runVars>>

\* the variables the actions of one specification leave alone
ldOthers == <<scrapeVars, urlVars, priceVars, ctVars, enhVars, expVars, imgVars,
    reqVars, runVars>>
scrapeOthers == <<ldVars, urlVars, priceVars, ctVars, enhVars, expVars, imgVars,
    reqVars, runVars>>
urlOthers == <<ldVars, scrapeVars, priceVars, ctVars, enhVars, expVars, imgVars,
    reqVars, runVars>>
priceOthers == <<ldVars, scrapeVars, urlVars, ctVars, enhVars, expVars, imgVars,
    reqVars, runVars>>
ctOthers == <<ldVars, scrapeVars, urlVars, priceVars, enhVars, expVars, imgVars,
    reqVars, runVars>>
enhOthers == <<ldVars, scrapeVars, urlVars, priceVars, ctVars, expVars, imgVars,
    reqVars, runVars>>
expOthers == <<ldVars, scrapeVars, urlVars, priceVars, ctVars, enhVars, imgVars,
    reqVars, runVars>>
imgOthers == <<ldVars, scrapeVars, urlVars, priceVars, ctVars, enhVars, expVars,
    reqVars, runVars>>
reqOthers == <<ldVars, scrapeVars, urlVars, priceVars, ctVars, enhVars, expVars,
    imgVars, runVars>>
runOthers == <<ldVars, scrapeVars, urlVars, priceVars, ctVars, enhVars, expVars,
    imgVars, reqVars>>

(***************************************************************************)
(* Bounds.                                                                 *)
(***************************************************************************)
MaxBlocks == 2          \* JSON-LD script blocks on a page
MaxStoreFailures == 1   \* commits of one scraper call that fail
MaxRichPages == 1       \* pages of one run that carry JSON-LD or a product heading

(***************************************************************************)
(* Python helpers.                                                         *)
(***************************************************************************)
PyNone == "<None>"
EmptyDict == [k \in {} |-> PyNone]

PyStr(s) == [t |-> "str", v |-> s]
PyList(l) == [t |-> "list", v |-> l]
PyDict(d) == [t |-> "dict", v |-> d]
PyNum == [t |-> "num", v |-> PyNone]

\* dict.get(key, default)
Get(d, key, default) == IF key \in DOMAIN d THEN d[key] ELSE default

\* bool(x) of a tagged value
Truthy(x) ==
    CASE x.t = "dict" -> DOMAIN x.v # {}
      [] x.t = "list" -> Len(x.v) > 0
      [] x.t = "str"  -> x.v # ""
      [] OTHER        -> TRUE

\* the concatenation of a sequence of lists
RECURSIVE Flatten(_)
Flatten(ss) == IF ss = <<>> THEN <<>> ELSE Head(ss) \o Flatten(Tail(ss))

(***************************************************************************)
(* Text the code searches or rebuilds (URLs, prices) is a sequence of      *)
(* one-character strings.                                                  *)
(***************************************************************************)
DigitChars == <<"0", "1", "2", "3", "4", "5", "6", "7", "8", "9">>

\* c.isdigit(), the \d of a pattern
IsDigit(c) == \E i \in DOMAIN DigitChars : DigitChars[i] = c
DigitValue(c) == (CHOOSE i \in DOMAIN DigitChars : DigitChars[i] = c) - 1

RECURSIVE StrOfNat(_)
\* str(n), as an f-string formats a page number
StrOfNat(n) ==
    IF n < 10 THEN <<DigitChars[n + 1]>>
    ELSE StrOfNat(n \div 10) \o <<DigitChars[(n % 10) + 1]>>

RECURSIVE IntOfDigits(_)
\* int(digits)
IntOfDigits(digits) ==
    IF digits = <<>> THEN 0
    ELSE 10 * IntOfDigits(SubSeq(digits, 1, Len(digits) - 1))
         + DigitValue(digits[Len(digits)])

\* text[i-1:].startswith(literal), i counted from 1
StartsAt(text, i, literal) ==
    /\ i + Len(literal) - 1 <= Len(text)
    /\ SubSeq(text, i, i + Len(literal) - 1) = literal

\* literal in text
Contains(text, literal) == \E i \in 1..Len(text) : StartsAt(text, i, literal)

\* text.endswith(literal)
EndsWith(text, literal) ==
    Len(text) >= Len(literal) /\ StartsAt(text, Len(text) - Len(literal) + 1, literal)

RECURSIVE DigitRun(_, _)
\* the longest run of digits of text from position i on: what (\d+) takes
DigitRun(text, i) ==
    IF i <= Len(text) /\ IsDigit(text[i])
    THEN <<text[i]>> \o DigitRun(text, i + 1)
    ELSE <<>>

\* re.search of the pattern [firsts]literal(\d+): group 1 of the leftmost
\* match, <<>> if there is none
SearchNumber(text, firsts, literal) ==
    LET hits == { i \in 1..Len(text) :
                    /\ text[i] \in firsts
                    /\ StartsAt(text, i + 1, literal)
                    /\ DigitRun(text, i + 1 + Len(literal)) # <<>> }
    IN  IF hits = {} THEN <<>>
        ELSE DigitRun(text, (CHOOSE i \in hits : \A j \in hits : i <= j)
                            + 1 + Len(literal))

\* a str argument, and None where a str is expected
PyText(chars) == [t |-> "text", v |-> chars]
NoText == [t |-> "none", v |-> <<>>]

RECURSIVE Strip(_)
\* text.strip()
Strip(text) ==
    IF text = <<>> THEN text
    ELSE IF Head(text) = " " THEN Strip(Tail(text))
    ELSE IF text[Len(text)] = " " THEN Strip(SubSeq(text, 1, Len(text) - 1))
    ELSE text

\* a cleaning that keeps the blanks inside the text: [^\d., ]
CleanPriceKeepsBlanks(price_text) ==
    IF price_text.t = "none" \/ price_text.v = <<>> THEN <<>>
    ELSE Strip(SelectSeq(price_text.v, LAMBDA c : IsDigit(c) \/ c \in {".", ",", " "}))

\* lines 331-338: re.sub(r'[^\d.,]', '', price_text).strip()
_clean_price(price_text) ==
    IF price_text.t = "none" \/ price_text.v = <<>> THEN <<>>
    ELSE Strip(SelectSeq(price_text.v, LAMBDA c : IsDigit(c) \/ c \in {".", ","}))

(***************************************************************************)
(* _parse_json_ld_product and _extract_json_ld_products.                   *)
(* An optional value (a product or None) is a sequence of length 0 or 1.   *)
(***************************************************************************)

\* product[key] = value
SetItem(product, key, value) == (key :> value) @@ product

\* data.get('brand', {}).get('name', '') if isinstance(data.get('brand'), dict)
\* else str(data.get('brand', ''))
BrandOf(d) ==
    LET brand == Get(d, "brand", PyStr(""))
    IN  IF brand.t = "dict" THEN Get(brand.v, "name", "") ELSE brand.v

\* the offers the code reads the price from: offers[0] of a list
OffersOf(d) ==
    LET offers == Get(d, "offers", PyDict(EmptyDict))
    IN  IF offers.t = "list" THEN offers.v[1] ELSE offers

\* a step of the try block raises (an attribute lookup on a non-dict)
ParseRaises(d) ==
    \/ /\ Truthy(Get(d, "offers", PyDict(EmptyDict)))
       /\ OffersOf(d).t # "dict"
    \/ /\ Truthy(Get(d, "aggregateRating", PyDict(EmptyDict)))
       /\ Get(d, "aggregateRating", PyDict(EmptyDict)).t # "dict"

WithOffers(product, d) ==
    IF Truthy(Get(d, "offers", PyDict(EmptyDict)))
    THEN LET offers == OffersOf(d).v
         IN  SetItem(SetItem(SetItem(product,
                 "price", Get(offers, "price", "")),
                 "currency", Get(offers, "priceCurrency", "")),
                 "availability", Get(offers, "availability", ""))
    ELSE product

WithImages(product, d) ==
    IF "image" \in DOMAIN d
    THEN LET images == d["image"]
         IN  CASE images.t = "str" ->
                    SetItem(SetItem(product, "image_urls", <<images.v>>),
                            "main_image_url", images.v)
               [] images.t = "list" ->
                    SetItem(SetItem(product, "image_urls", images.v),
                            "main_image_url",
                            IF Len(images.v) > 0 THEN images.v[1] ELSE "")
               [] OTHER -> product
    ELSE product

WithRating(product, d) ==
    LET rating_data == Get(d, "aggregateRating", PyDict(EmptyDict))
    IN  IF Truthy(rating_data)
        THEN SetItem(SetItem(product,
                 "rating", Get(rating_data.v, "ratingValue", PyNone)),
                 "review_count", Get(rating_data.v, "reviewCount", PyNone))
        ELSE product

_parse_json_ld_product(data) ==
    IF data.t # "dict" THEN <<>>                    \* .get on a non-dict: caught
    ELSE LET d == data.v
             product == [k \in {"title", "description", "brand", "sku", "image_urls"} |->
                            CASE k = "title"       -> Get(d, "name", "")
                              [] k = "description" -> Get(d, "description", "")
                              [] k = "brand"       -> BrandOf(d)
                              [] k = "sku"         -> Get(d, "sku", "")
                              [] k = "image_urls"  -> <<>>]
         IN  IF Get(d, "@type", PyNone) # "Product" THEN <<>>
             ELSE IF ParseRaises(d) THEN <<>>
             ELSE <<WithRating(WithImages(WithOffers(product, d), d), d)>>

\* `if product:` of an optional product
IsTruthyProduct(opt) == Len(opt) > 0 /\ DOMAIN opt[1] # {}

RECURSIVE ParseItems(_)
\* the products of the items of a JSON array, in order
ParseItems(items) ==
    IF items = <<>> THEN <<>>
    ELSE LET product == _parse_json_ld_product(Head(items))
         IN  (IF IsTruthyProduct(product) THEN product ELSE <<>>)
             \o ParseItems(Tail(items))

(***************************************************************************)
(* A script block is its .string: None (a script tag without a single text *)
(* child), text that is not JSON, or text that json.loads turns into data. *)
(***************************************************************************)
NoneBody == [body |-> "none"]
InvalidBody == [body |-> "invalid"]
JsonBody(data) == [body |-> "json", data |-> data]

\* json.loads(script.string) raises json.JSONDecodeError
RaisesJSONDecodeError(script) == script.body = "invalid"
\* json.loads(None) raises TypeError
RaisesTypeError(script) == script.body = "none"

\* the products one script adds (lines 86-97)
ScriptProducts(script) ==
    IF script.data.t = "list"
    THEN ParseItems(script.data.v)
    ELSE LET product == _parse_json_ld_product(script.data)
         IN  IF IsTruthyProduct(product) THEN product ELSE <<>>

\* the loop of _extract_json_ld_products from script i on, products so far
RECURSIVE ScanFrom(_, _, _)
ScanFrom(scripts, i, products) ==
    IF i > Len(scripts) THEN products
    ELSE IF RaisesTypeError(scripts[i]) THEN products      \* outer except
    ELSE IF RaisesJSONDecodeError(scripts[i]) THEN ScanFrom(scripts, i + 1, products)
    ELSE ScanFrom(scripts, i + 1, products \o ScriptProducts(scripts[i]))

_extract_json_ld_products(scripts) == ScanFrom(scripts, 1, <<>>)

(***************************************************************************)
(* The JSON-LD inputs: objects of type Product with and without a name,    *)
(* with offers absent, an object or an array, with image (and brand)       *)
(* absent, a string or an array (an object), an object of another type,    *)
(* arrays of these, JSON that is no object, text that is no JSON and a     *)
(* script tag without a body.                                              *)
(***************************************************************************)
Opt(present, d) == IF present THEN d ELSE EmptyDict

Offer1 == ("price" :> "9.99") @@ ("priceCurrency" :> "USD") @@ ("availability" :> "InStock")
Offer2 == ("price" :> "19.99") @@ ("priceCurrency" :> "EUR")
Rating1 == ("ratingValue" :> "4.5") @@ ("reviewCount" :> "12")

ProductData(named, offers, extras) ==
       ("@type" :> "Product")
    @@ Opt(named, "name" :> "Widget")
    @@ Opt(offers = "dict", "offers" :> PyDict(Offer1))
    @@ Opt(offers = "list", "offers" :> PyList(<<PyDict(Offer2), PyDict(Offer1)>>))
    @@ Opt(extras = "str", ("image" :> PyStr("https://x/img.png"))
                        @@ ("brand" :> PyStr("Acme"))
                        @@ ("description" :> "A widget") @@ ("sku" :> "W-1")
                        @@ ("aggregateRating" :> PyDict(Rating1)))
    @@ Opt(extras = "list", ("image" :> PyList(<<"https://x/a.png", "https://x/b.png">>))
                         @@ ("brand" :> PyDict("name" :> "Acme Inc"))
                         @@ ("aggregateRating" :> PyDict(Rating1)))

OtherData == ("@type" :> "Organization") @@ ("name" :> "Shop")

LdDicts ==
    { ProductData(n, o, e) : n \in BOOLEAN,
                             o \in {"absent", "dict", "list"},
                             e \in {"absent", "str", "list"} }
    \cup {OtherData}

LdListItems ==
    { PyNum, PyDict(OtherData),
      PyDict(ProductData(TRUE, "dict", "str")),
      PyDict(ProductData(FALSE, "absent", "absent")) }

LdScriptInputs ==
    {NoneBody, InvalidBody, JsonBody(PyNum), JsonBody(PyList(<<>>))}
    \cup { JsonBody(PyDict(d)) : d \in LdDicts }
    \cup { JsonBody(PyList(<<a, b>>)) : a \in LdListItems, b \in LdListItems }

SeqsUpTo(S, n) == UNION { [1..k -> S] : k \in 0..n }

(***************************************************************************)
(* SpecJsonLd: _extract_json_ld_products, one script per step.             *)
(***************************************************************************)
LdInit ==
    /\ ld_scripts \in SeqsUpTo(LdScriptInputs, MaxBlocks)
    /\ ld_idx = 0
    /\ ld_products = <<>>
    /\ ld_pc = "scan"

LdNextScript == ld_scripts[ld_idx + 1]

\* json.loads raises JSONDecodeError: continue with the next script
LdSkipScript ==
    /\ ld_pc = "scan" /\ ld_idx < Len(ld_scripts)
    /\ ~RaisesTypeError(LdNextScript)
    /\ RaisesJSONDecodeError(LdNextScript)
    /\ ld_idx' = ld_idx + 1
    /\ UNCHANGED <<ld_scripts, ld_products, ld_pc, ldOthers>>

\* json.loads raises TypeError: caught outside the loop, the scan ends
LdAbortScan ==
    /\ ld_pc = "scan" /\ ld_idx < Len(ld_scripts)
    /\ RaisesTypeError(LdNextScript)
    /\ ld_idx' = ld_idx + 1
    /\ ld_pc' = "returned"
    /\ UNCHANGED <<ld_scripts, ld_products, ldOthers>>

\* the script parses: its Product objects are appended
LdParseScript ==
    /\ ld_pc = "scan" /\ ld_idx < Len(ld_scripts)
    /\ ~RaisesTypeError(LdNextScript)
    /\ ~RaisesJSONDecodeError(LdNextScript)
    /\ ld_products' = ld_products \o ScriptProducts(LdNextScript)
    /\ ld_idx' = ld_idx + 1
    /\ UNCHANGED <<ld_scripts, ld_pc, ldOthers>>

\* the loop is over: return products
LdReturn ==
    /\ ld_pc = "scan" /\ ld_idx = Len(ld_scripts)
    /\ ld_pc' = "returned"
    /\ UNCHANGED <<ld_scripts, ld_idx, ld_products, ldOthers>>

LdNext == LdSkipScript \/ LdAbortScan \/ LdParseScript \/ LdReturn

(***************************************************************************)
(* The parsed page.  soup.scripts are its JSON-LD script blocks,           *)
(* soup.containers maps a container selector to the elements it matches,   *)
(* soup.texts maps a selector to the stripped text of its first match,     *)
(* soup.indicators are the next-link selectors that match an element and   *)
(* soup.page_links the elements '.pagination a, .page-numbers a,           *)
(* .wp-pagenavi a' selects, each a dict of its attributes.  A container     *)
(* element maps a selector to the stripped text of its first match.        *)
(***************************************************************************)
max_pages == 10
MaxContainers == 20

product_selectors ==
    << ".product-item", ".product", ".product-card", ".woocommerce-product",
       ".shop-item", ".product-box", "[data-product-id]", ".product-tile",
       ".item-product" >>

container_title_selectors ==
    << ".product-title", ".product-name", "h2", "h3", "h4",
       ".title", ".name", "[data-product-title]" >>

single_title_selectors ==
    << "h1.product-title", "h1.entry-title", "h1.product_title",
       "h1", ".product-name h1", ".product-title" >>

RECURSIVE FirstText(_, _, _)
\* the text of the first selector of the list that matches, else the default
FirstText(texts, selectors, default) ==
    IF selectors = <<>> THEN default
    ELSE IF Head(selectors) \in DOMAIN texts THEN texts[Head(selectors)]
    ELSE FirstText(texts, Tail(selectors), default)

MaxImages == 5

\* the URL of the page the elements are taken from
ImagePageUrl == "https://shop.example/c/"

\* urljoin(base, src): an absolute src stands for itself
AbsoluteSrcs == {"https://cdn.example/z.jpg"}
UrlJoin(base, src) ==
    IF src \in AbsoluteSrcs THEN [base |-> "", ref |-> src]
    ELSE [base |-> base, ref |-> src]

\* img.get('src') or img.get('data-src')
ImgSrc(img) ==
    LET src == Get(img, "src", PyNone)
    IN  IF src \notin {PyNone, ""} THEN src ELSE Get(img, "data-src", PyNone)

\* if img_src
IsSrc(img_src) == img_src \notin {PyNone, ""}

\* lines 230-236: the first img of the container
WithContainerImage(product, container) ==
    IF "img" \in DOMAIN container /\ IsSrc(ImgSrc(container["img"]))
    THEN LET main_image_url == UrlJoin(ImagePageUrl, ImgSrc(container["img"]))
         IN  SetItem(SetItem(product, "main_image_url", main_image_url),
                     "image_urls", <<main_image_url>>)
    ELSE product

img_selectors ==
    << ".product-images img", ".product-gallery img",
       ".woocommerce-product-gallery img" >>

\* the img elements a selector matches on the page
ImgElements(s, selector) ==
    IF "images" \in DOMAIN s THEN Get(s.images, selector, <<>>) ELSE <<>>

RECURSIVE ImageUrls(_)
\* lines 308-312: the URLs of the elements that carry a source
ImageUrls(img_elements) ==
    IF img_elements = <<>> THEN <<>>
    ELSE (IF IsSrc(ImgSrc(Head(img_elements)))
          THEN <<UrlJoin(ImagePageUrl, ImgSrc(Head(img_elements)))>> ELSE <<>>)
         \o ImageUrls(Tail(img_elements))

RECURSIVE SingleImagesUnlimited(_, _)
\* a gallery read to its end
SingleImagesUnlimited(s, selectors) ==
    IF selectors = <<>> THEN <<>>
    ELSE LET img_elements == ImgElements(s, Head(selectors))
         IN  IF img_elements # <<>> THEN ImageUrls(img_elements)
             ELSE SingleImagesUnlimited(s, Tail(selectors))

RECURSIVE SingleImages(_, _)
\* lines 302-317: the first selector that matches, its first five elements
SingleImages(s, selectors) ==
    IF selectors = <<>> THEN <<>>
    ELSE LET img_elements == ImgElements(s, Head(selectors))
         IN  IF img_elements # <<>>
             THEN ImageUrls(SubSeq(img_elements, 1,
                                   IF Len(img_elements) < MaxImages
                                   THEN Len(img_elements) ELSE MaxImages))
             ELSE SingleImages(s, Tail(selectors))

\* lines 314-315
WithSingleImages(product, s) ==
    LET image_urls == SingleImages(s, img_selectors)
    IN  IF image_urls # <<>>
        THEN SetItem(SetItem(product, "image_urls", image_urls),
                     "main_image_url", image_urls[1])
        ELSE product

\* an extraction that returns the record whether it has a title or not
ExtractProductFromContainerUntitled(container) ==
    << [k \in {"title", "description", "price", "original_price", "brand",
               "category", "image_urls", "main_image_url", "rating",
               "review_count"} |->
           CASE k = "image_urls" -> <<>>
             [] k \in {"rating", "review_count"} -> PyNone
             [] k = "title" -> FirstText(container, container_title_selectors, "")
             [] OTHER -> ""] >>

\* lines 183-246; the elements of the model carry a title and an img at most,
\* so the other fields keep the values the record is created with
_extract_product_from_container(container) ==
    LET product == [k \in {"title", "description", "price", "original_price", "brand",
                           "category", "image_urls", "main_image_url", "rating",
                           "review_count"} |->
                       CASE k = "image_urls" -> <<>>
                         [] k \in {"rating", "review_count"} -> PyNone
                         [] k = "title" -> FirstText(container, container_title_selectors, "")
                         [] OTHER -> ""]
    IN  IF product["title"] # "" THEN <<WithContainerImage(product, container)>>
        ELSE <<>>

RECURSIVE ContainerProducts(_)
ContainerProducts(containers) ==
    IF containers = <<>> THEN <<>>
    ELSE _extract_product_from_container(Head(containers))
         \o ContainerProducts(Tail(containers))

RECURSIVE ContainerScanUntilProducts(_, _)
\* a scan that goes on to the next selector when a selector's elements give
\* no product
ContainerScanUntilProducts(s, selectors) ==
    IF selectors = <<>> THEN <<>>
    ELSE LET containers == Get(s.containers, Head(selectors), <<>>)
             products == ContainerProducts(
                             SubSeq(containers, 1,
                                    IF Len(containers) < MaxContainers
                                    THEN Len(containers) ELSE MaxContainers))
         IN  IF products # <<>> THEN products
             ELSE ContainerScanUntilProducts(s, Tail(selectors))

RECURSIVE ContainerScan(_, _)
\* the for loop over product_selectors: the first selector that matches is used
ContainerScan(s, selectors) ==
    IF selectors = <<>> THEN <<>>
    ELSE LET containers == Get(s.containers, Head(selectors), <<>>)
         IN  IF containers # <<>>
             THEN ContainerProducts(
                      SubSeq(containers, 1,
                             IF Len(containers) < MaxContainers
                             THEN Len(containers) ELSE MaxContainers))
             ELSE ContainerScan(s, Tail(selectors))

_extract_container_products(s) == ContainerScan(s, product_selectors)

\* lines 255-325, the title, the images and the record shape
_extract_single_product(s) ==
    LET product == [k \in {"title", "description", "price", "original_price", "brand",
                           "category", "sku", "image_urls", "main_image_url", "rating",
                           "review_count"} |->
                       CASE k = "image_urls" -> <<>>
                         [] k \in {"rating", "review_count"} -> PyNone
                         [] k = "title" -> FirstText(s.texts, single_title_selectors, "")
                         [] OTHER -> ""]
    IN  IF product["title"] # "" THEN <<WithSingleImages(product, s)>> ELSE <<>>

\* a page URL built without looking at the end of the base URL
BuildPageUrlSlashAlways(base_url, page_number) ==
    IF page_number = 1 THEN base_url
    ELSE IF Contains(base_url, <<"?">>)
    THEN base_url \o <<"&", "p", "a", "g", "e", "=">> \o StrOfNat(page_number)
    ELSE base_url \o <<"/", "p", "a", "g", "e", "/">> \o StrOfNat(page_number) \o <<"/">>

\* lines 340-363
_build_page_url(base_url, page_number) ==
    IF page_number = 1 THEN base_url
    ELSE IF Contains(base_url, <<"?">>)
    THEN base_url \o <<"&", "p", "a", "g", "e", "=">> \o StrOfNat(page_number)
    ELSE IF EndsWith(base_url, <<"/">>)
    THEN base_url \o <<"p", "a", "g", "e", "/">> \o StrOfNat(page_number) \o <<"/">>
    ELSE base_url \o <<"/", "p", "a", "g", "e", "/">> \o StrOfNat(page_number) \o <<"/">>

\* lines 397-411: the patterns /page/(\d+), [?&]page=(\d+), [?&]paged=(\d+)
\* in this order, 1 if none matches
_extract_page_number_from_url(url) ==
    LET m1 == SearchNumber(url, {"/"}, <<"p", "a", "g", "e", "/">>)
        m2 == SearchNumber(url, {"?", "&"}, <<"p", "a", "g", "e", "=">>)
        m3 == SearchNumber(url, {"?", "&"}, <<"p", "a", "g", "e", "d", "=">>)
    IN  IF m1 # <<>> THEN IntOfDigits(m1)
        ELSE IF m2 # <<>> THEN IntOfDigits(m2)
        ELSE IF m3 # <<>> THEN IntOfDigits(m3)
        ELSE 1

next_indicators ==
    << "a[rel=\"next\"]", "a.next", "a.next-page", ".pagination a.next",
       ".wp-pagenavi a.nextpostslink", ".woocommerce-pagination a.next",
       ".page-numbers.next", "a[aria-label*=\"Next\"]", "a[title*=\"Next\"]" >>

\* a continuation test that also takes a link to the current page
HasNextPageNotStrict(s, current_url) ==
    \/ \E i \in DOMAIN next_indicators : next_indicators[i] \in s.indicators
    \/ \E i \in DOMAIN s.page_links :
         LET href == Get(s.page_links[i], "href", <<>>)
             page_num == _extract_page_number_from_url(href)
         IN  href # <<>> /\ page_num # 0
             /\ page_num >= _extract_page_number_from_url(current_url)

\* lines 365-395
_has_next_page(s, current_url) ==
    \/ \E i \in DOMAIN next_indicators : next_indicators[i] \in s.indicators
    \/ LET current_page_num == _extract_page_number_from_url(current_url)
       IN  \E i \in DOMAIN s.page_links :
             LET href == Get(s.page_links[i], "href", <<>>)
                 page_num == _extract_page_number_from_url(href)
             IN  href # <<>> /\ page_num # 0 /\ page_num > current_page_num

(***************************************************************************)
(* Lines 35-52 (451-468): the strategies tried on a fetched page, in       *)
(* order.  [products |-> page_products, ran |-> the extractors called].    *)
(* ExtractPageAnyPage is the selection without the first-page test of the  *)
(* single-product strategy.                                                *)
(***************************************************************************)
ExtractPageAnyPage(s, page) ==
    LET json_ld_products == _extract_json_ld_products(s.scripts)
        p1 == IF json_ld_products # <<>> THEN json_ld_products ELSE <<>>
        p2 == IF p1 = <<>> THEN p1 \o _extract_container_products(s) ELSE p1
        p3 == IF p2 = <<>> THEN p2 \o _extract_single_product(s) ELSE p2
    IN  [products |-> p3,
         ran |-> {"json_ld"}
                 \cup (IF p1 = <<>> THEN {"container"} ELSE {})
                 \cup (IF p2 = <<>> THEN {"single"} ELSE {})]

ExtractPage(s, page) ==
    LET json_ld_products == _extract_json_ld_products(s.scripts)
        p1 == IF json_ld_products # <<>> THEN json_ld_products ELSE <<>>
        p2 == IF p1 = <<>> THEN p1 \o _extract_container_products(s) ELSE p1
        p3 == IF p2 = <<>> /\ page = 1 THEN p2 \o _extract_single_product(s) ELSE p2
    IN  [products |-> p3,
         ran |-> {"json_ld"}
                 \cup (IF p1 = <<>> THEN {"container"} ELSE {})
                 \cup (IF p2 = <<>> /\ page = 1 THEN {"single"} ELSE {})]

(***************************************************************************)
(* The pages a fetch may return: with and without a JSON-LD block (an      *)
(* array of a named and a nameless Product), with                          *)
(* and without product tiles (one of them without a title), with and       *)
(* without a product heading, with no continuation signal, a next link or  *)
(* pagination links to the pages 1 to 3.                                   *)
(***************************************************************************)
LinkTo(href) == "href" :> href

PaginationLinks ==
    << LinkTo(<<"s", "/", "c">>),
       LinkTo(<<"s", "/", "c", "?", "p", "a", "g", "e", "=", "2">>),
       LinkTo(<<"s", "/", "c", "/", "p", "a", "g", "e", "/", "3", "/">>) >>

TileA == ("h2" :> "Tile A")
TileB == (".product-title" :> "Tile B") @@ ("h3" :> "not used")
TileUntitled == (".price" :> "$5")

ScrapeSoups ==
    { [scripts |-> sc, containers |-> co, texts |-> tx,
       indicators |-> IF nx = "indicator" THEN {"a.next"} ELSE {},
       page_links |-> IF nx = "link" THEN PaginationLinks ELSE <<>>] :
        sc \in { <<>>, <<JsonBody(PyList(<<PyDict(ProductData(TRUE, "dict", "str")),
                                           PyDict(ProductData(FALSE, "absent", "absent"))>>))>> },
        co \in { EmptyDict, (".product" :> <<TileA, TileUntitled, TileB>>) },
        tx \in { EmptyDict, ("h1" :> "Solo") },
        nx \in { "none", "indicator", "link" } }

\* a plain listing page: tiles or nothing, no JSON-LD, no product heading
IsListing(s) == s.scripts = <<>> /\ s.texts = EmptyDict

EmptySoup == [scripts |-> <<>>, containers |-> EmptyDict, texts |-> EmptyDict,
              indicators |-> {}, page_links |-> <<>>]

\* the URL the scrape is started with, and line 26 (442): the URL of a page
ScrapeUrl == <<"s", "/", "c">>
page_url(page) == _build_page_url(ScrapeUrl, page)

(***************************************************************************)
(* The ScrapingJob row (src/models.py) as the database holds it.           *)
(***************************************************************************)
NewJob(status) ==
    [status |-> status, current_page |-> 1, total_pages |-> 1,
     total_products_found |-> 0, error_message |-> "", completed_at |-> FALSE]

\* line 24 (424): while current_page <= max_pages
LoopCondition(page) == page <= max_pages

\* a loop that never takes the break of line 57 (473)
NoProductsNever(products) == FALSE

\* line 55 (471): if not page_products
NoProducts(products) == products = <<>>

\* an accumulation that drops a product already found on an earlier page
ExtendDeduplicated(products, more) ==
    products \o SelectSeq(more, LAMBDA p : \A i \in DOMAIN products : products[i] # p)

\* line 59 (475): all_products.extend(page_products)
Extend(products, more) == products \o more

\* a poll that stops on a cancelled job only
IsStoppedCancelledOnly(status) == status = "cancelled"

\* line 427: job.status in ['cancelled', 'paused']
IsStopped(status) == status \in {"cancelled", "paused"}

(***************************************************************************)
(* SpecScrape.                                                             *)
(***************************************************************************)
ScrapeInit ==
    /\ mode \in {"plain", "progress", "norow"}
    /\ pc = CASE mode = "plain" -> "fetch"
              [] mode = "progress" -> "job_start"
              [] mode = "norow" -> "poll"
    /\ current_page = 1
    /\ all_products = <<>>
    /\ page_products = <<>>
    /\ soup = EmptySoup
    /\ job = NewJob(IF mode = "progress" THEN "pending" ELSE "none")
    /\ outcome = "none"
    /\ result = <<>>
    /\ error = ""
    /\ fetched = <<>>
    /\ yields = <<>>
    /\ signals = <<>>
    /\ ran = {}
    /\ polled = [page |-> 0, status |-> ""]
    /\ store_failures = 0
    /\ rich_pages = 0

\* the scraper call returns products (to run_scraping_job in progress mode)
Return(products) ==
    /\ outcome' = "returned"
    /\ result' = products
    /\ pc' = IF mode = "progress" THEN "job_after" ELSE "done"

\* the scraper call raises e (lines 73-75, 510-512)
Raise(e) ==
    /\ outcome' = "raised"
    /\ error' = e
    /\ pc' = IF mode = "progress" THEN "job_except" ELSE "done"

\* the loop is left with all_products = products: the final update of
\* scrape_products_with_progress, the return of scrape_products
LeaveLoop(products) ==
    IF mode = "plain"
    THEN Return(products) /\ UNCHANGED error
    ELSE pc' = "final_update" /\ UNCHANGED <<outcome, result, error>>

\* lines 427, 431, 479, 492, 501: if job; the status "none" stands for the
\* None that ScrapingJob.query.get returns when the job has no row
HasJob == job.status # "none"

\* a commit succeeds, or fails while failures are left
CommitOutcomes == {TRUE} \cup (IF store_failures < MaxStoreFailures THEN {FALSE} ELSE {})
Committed(ok) == store_failures' = IF ok THEN store_failures ELSE store_failures + 1

\* run_scraping_job, lines 247-273: the job is set running, the scraper called
RunJobStart ==
    /\ pc = "job_start"
    /\ job' = [job EXCEPT !.status = "running"]
    /\ pc' = "poll"
    /\ UNCHANGED <<mode, current_page, all_products, page_products, soup, outcome,
                   result, error, fetched, yields, signals, ran, polled, store_failures, rich_pages, scrapeOthers>>

\* lines 426-428: the job is read before each page
Poll ==
    /\ pc = "poll"
    /\ polled' = [page |-> current_page, status |-> job.status]
    /\ IF HasJob /\ IsStopped(job.status)
       THEN Return(all_products)
       ELSE pc' = "page_update" /\ UNCHANGED <<outcome, result>>
    /\ UNCHANGED <<mode, current_page, all_products, page_products, soup, job,
                   error, fetched, yields, signals, ran, store_failures, rich_pages, scrapeOthers>>

\* lines 431-439: current page written, a failed commit is rolled back
PageUpdate ==
    /\ pc = "page_update"
    /\ IF HasJob
       THEN \E ok \in CommitOutcomes :
              /\ job' = IF ok THEN [job EXCEPT !.current_page = current_page] ELSE job
              /\ Committed(ok)
       ELSE UNCHANGED <<job, store_failures>>
    /\ pc' = "fetch"
    /\ UNCHANGED <<mode, current_page, all_products, page_products, soup, outcome,
                   result, error, fetched, yields, signals, ran, polled, rich_pages, scrapeOthers>>

\* a failed request taken as the end of the pagination
FetchFailSwallowed ==
    /\ pc = "fetch"
    /\ fetched' = Append(fetched, current_page)
    /\ LeaveLoop(all_products)
    /\ UNCHANGED <<mode, current_page, all_products, page_products, soup, job,
                   yields, signals, ran, polled, store_failures, rich_pages, scrapeOthers>>

\* lines 30-31 (446-447): the request times out, fails or answers non-2xx
FetchFail ==
    /\ pc = "fetch"
    /\ fetched' = Append(fetched, current_page)
    /\ Raise("FetchError")
    /\ UNCHANGED <<mode, current_page, all_products, page_products, soup, job,
                   result, yields, signals, ran, polled, store_failures, rich_pages, scrapeOthers>>

\* a fetch that looks at the job again and gives the page up when the job was
\* stopped after the poll
FetchPageInterruptible ==
    /\ pc = "fetch"
    /\ IF HasJob /\ IsStopped(job.status)
       THEN /\ Return(all_products)
            /\ UNCHANGED <<soup, page_products, ran, fetched, yields, signals,
                           rich_pages, all_products, error>>
       ELSE \E s \in ScrapeSoups :
              LET x == ExtractPage(s, current_page)
              IN  /\ IsListing(s) \/ rich_pages < MaxRichPages
                  /\ rich_pages' = IF IsListing(s) THEN rich_pages ELSE rich_pages + 1
                  /\ soup' = s
                  /\ page_products' = x.products
                  /\ ran' = x.ran
                  /\ fetched' = Append(fetched, current_page)
                  /\ yields' = Append(yields, x.products)
                  /\ signals' = IF NoProducts(x.products) THEN signals
                                ELSE Append(signals, _has_next_page(s, page_url(current_page)))
                  /\ IF NoProducts(x.products)
                     THEN /\ LeaveLoop(all_products)
                          /\ UNCHANGED all_products
                     ELSE /\ all_products' = Extend(all_products, x.products)
                          /\ pc' = IF mode = "plain" THEN "next_check" ELSE "found_update"
                          /\ UNCHANGED <<outcome, result, error>>
    /\ UNCHANGED <<mode, current_page, job, polled, store_failures, scrapeOthers>>

\* lines 26-60 (442-476): the page is fetched and its products extracted
FetchPage ==
    /\ pc = "fetch"
    /\ \E s \in ScrapeSoups :
         LET x == ExtractPage(s, current_page)
         IN  /\ IsListing(s) \/ rich_pages < MaxRichPages
             /\ rich_pages' = IF IsListing(s) THEN rich_pages ELSE rich_pages + 1
             /\ soup' = s
             /\ page_products' = x.products
             /\ ran' = x.ran
             /\ fetched' = Append(fetched, current_page)
             /\ yields' = Append(yields, x.products)
             /\ signals' = IF NoProducts(x.products) THEN signals
                           ELSE Append(signals, _has_next_page(s, page_url(current_page)))
             /\ IF NoProducts(x.products)
                THEN /\ LeaveLoop(all_products)
                     /\ UNCHANGED all_products
                ELSE /\ all_products' = Extend(all_products, x.products)
                     /\ pc' = IF mode = "plain" THEN "next_check" ELSE "found_update"
                     /\ UNCHANGED <<outcome, result, error>>
    /\ UNCHANGED <<mode, current_page, job, polled, store_failures, scrapeOthers>>

\* a found-count update that writes the count of the page, not the total
FoundUpdatePageCount ==
    /\ pc = "found_update"
    /\ IF HasJob
       THEN \E ok \in CommitOutcomes :
              /\ job' = IF ok
                        THEN [job EXCEPT !.total_products_found = Len(page_products)]
                        ELSE job
              /\ Committed(ok)
       ELSE UNCHANGED <<job, store_failures>>
    /\ pc' = "next_check"
    /\ UNCHANGED <<mode, current_page, all_products, page_products, soup, outcome,
                   result, error, fetched, yields, signals, ran, polled, rich_pages, scrapeOthers>>

\* lines 479-487: products found so far written, a failed commit rolled back
FoundUpdate ==
    /\ pc = "found_update"
    /\ IF HasJob
       THEN \E ok \in CommitOutcomes :
              /\ job' = IF ok
                        THEN [job EXCEPT !.total_products_found = Len(all_products)]
                        ELSE job
              /\ Committed(ok)
       ELSE UNCHANGED <<job, store_failures>>
    /\ pc' = "next_check"
    /\ UNCHANGED <<mode, current_page, all_products, page_products, soup, outcome,
                   result, error, fetched, yields, signals, ran, polled, rich_pages, scrapeOthers>>

\* lines 63-65 (490-495): no next page; total_pages is committed unguarded
NoNextPage ==
    /\ pc = "next_check"
    /\ ~_has_next_page(soup, page_url(current_page))
    /\ IF mode = "plain"
       THEN /\ Return(all_products)
            /\ UNCHANGED <<job, error, store_failures>>
       ELSE IF ~HasJob
       THEN /\ pc' = "final_update"
            /\ UNCHANGED <<job, outcome, result, error, store_failures>>
       ELSE \E ok \in CommitOutcomes :
              /\ Committed(ok)
              /\ IF ok
                 THEN /\ job' = [job EXCEPT !.total_pages = current_page]
                      /\ pc' = "final_update"
                      /\ UNCHANGED <<outcome, result, error>>
                 ELSE /\ Raise("StoreError")
                      /\ UNCHANGED <<job, result>>
    /\ UNCHANGED <<mode, current_page, all_products, page_products, soup,
                   fetched, yields, signals, ran, polled, rich_pages, scrapeOthers>>

\* lines 67-68 (497-498) and the loop test: the next page, or the cap
NextPage ==
    /\ pc = "next_check"
    /\ _has_next_page(soup, page_url(current_page))
    /\ current_page' = current_page + 1
    /\ IF LoopCondition(current_page + 1)
       THEN /\ pc' = IF mode = "plain" THEN "fetch" ELSE "poll"
            /\ UNCHANGED <<outcome, result, error>>
       ELSE LeaveLoop(all_products)
    /\ UNCHANGED <<mode, all_products, page_products, soup, job,
                   fetched, yields, signals, ran, polled, store_failures, rich_pages, scrapeOthers>>

\* a final step that returns the products of the last page only
FinalUpdateLastPage ==
    /\ pc = "final_update"
    /\ UNCHANGED <<job, error, store_failures>>
    /\ Return(page_products)
    /\ UNCHANGED <<mode, current_page, all_products, page_products, soup,
                   fetched, yields, signals, ran, polled, rich_pages, scrapeOthers>>

\* lines 501-508: the final update is committed unguarded, then the return
FinalUpdate ==
    /\ pc = "final_update"
    /\ IF ~HasJob
       THEN /\ Return(all_products)
            /\ UNCHANGED <<job, error, store_failures>>
       ELSE \E ok \in CommitOutcomes :
              /\ Committed(ok)
              /\ IF ok
                 THEN /\ job' = [job EXCEPT !.total_pages = current_page,
                                            !.total_products_found = Len(all_products)]
                      /\ Return(all_products)
                      /\ UNCHANGED error
                 ELSE /\ Raise("StoreError")
                      /\ UNCHANGED <<job, result>>
    /\ UNCHANGED <<mode, current_page, all_products, page_products, soup,
                   fetched, yields, signals, ran, polled, rich_pages, scrapeOthers>>

\* routes.py line 277: job.status in ['cancelled', 'paused']
JobStopped(status) == status \in {"cancelled", "paused"}

\* run_scraping_job, lines 276-292: after the scraper returned
RunJobAfter ==
    /\ pc = "job_after"
    /\ IF JobStopped(job.status)
       THEN pc' = "job_done" /\ UNCHANGED job
       ELSE IF result = <<>>
       THEN /\ job' = [job EXCEPT !.status = "failed",
                                  !.error_message = "No products found on the provided URL",
                                  !.completed_at = TRUE]
            /\ pc' = "job_done"
       ELSE /\ job' = [job EXCEPT !.total_products_found = Len(result)]
            /\ pc' = "enhance"
    /\ UNCHANGED <<mode, current_page, all_products, page_products, soup, outcome,
                   result, error, fetched, yields, signals, ran, polled, store_failures, rich_pages, scrapeOthers>>

\* run_scraping_job, lines 368-377: the scraper raised
RunJobExcept ==
    /\ pc = "job_except"
    /\ job' = [job EXCEPT !.status = "failed", !.error_message = error,
                          !.completed_at = TRUE]
    /\ pc' = "job_done"
    /\ UNCHANGED <<mode, current_page, all_products, page_products, soup, outcome,
                   result, error, fetched, yields, signals, ran, polled, store_failures, rich_pages, scrapeOthers>>

\* pause_job, lines 197-208
pause_job ==
    /\ job.status = "running"
    /\ job' = [job EXCEPT !.status = "paused"]
    /\ UNCHANGED <<mode, pc, current_page, all_products, page_products, soup, outcome,
                   result, error, fetched, yields, signals, ran, polled, store_failures, rich_pages, scrapeOthers>>

\* cancel_job, lines 229-241
cancel_job ==
    /\ job.status \in {"running", "paused", "pending"}
    /\ job' = [job EXCEPT !.status = "cancelled", !.completed_at = TRUE]
    /\ UNCHANGED <<mode, pc, current_page, all_products, page_products, soup, outcome,
                   result, error, fetched, yields, signals, ran, polled, store_failures, rich_pages, scrapeOthers>>

ScrapeNext ==
    \/ RunJobStart \/ Poll \/ PageUpdate \/ FetchFail \/ FetchPage \/ FoundUpdate
    \/ NoNextPage \/ NextPage \/ FinalUpdate \/ RunJobAfter \/ RunJobExcept
    \/ pause_job \/ cancel_job

(***************************************************************************)
(* SpecUrl: a page URL is built from a base URL and a page number, its     *)
(* page number is read back, and a page fetched from it is asked for a     *)
(* next page.                                                              *)
(***************************************************************************)
MaxUrlParts == 2        \* parts of a base URL after the host

\* https://shop.example/cat and https://shop.example/cat?x=1
ShopCat ==
    << "h", "t", "t", "p", "s", ":", "/", "/", "s", "h", "o", "p", ".",
       "e", "x", "a", "m", "p", "l", "e", "/", "c", "a", "t" >>
ShopCatQuery == ShopCat \o <<"?", "x", "=", "1">>

UrlParts ==
    { <<"/">>, <<"/", "c">>, <<"?", "x", "=", "1">>,
      <<"/", "p", "a", "g", "e", "/", "2">>,
      <<"?", "p", "a", "g", "e", "=", "0">>,
      <<"&", "p", "a", "g", "e", "d", "=", "1", "2">> }

\* the host s followed by at most MaxUrlParts parts
UrlBases ==
    { <<"s">> \o Flatten(parts) : parts \in SeqsUpTo(UrlParts, MaxUrlParts) }
    \cup {ShopCat, ShopCatQuery}

LinkHrefs ==
    { <<>>, <<"#">>, <<"s", "/", "c">>,
      <<"?", "p", "a", "g", "e", "=", "0">>,
      <<"?", "p", "a", "g", "e", "=", "2">>,
      <<"/", "p", "a", "g", "e", "/", "3", "/">>,
      <<"s", "?", "x", "=", "1", "&", "p", "a", "g", "e", "d", "=", "1", "1">> }

UrlSoups ==
    { [EmptySoup EXCEPT !.indicators = ind, !.page_links = links] :
        ind \in { {}, {".page-numbers.next"} },
        links \in { <<>>, <<EmptyDict>>, PaginationLinks }
                  \cup { <<LinkTo(h)>> : h \in LinkHrefs } }

UrlInit ==
    /\ url_base \in UrlBases
    /\ url_page \in 1..max_pages
    /\ url_built = <<>>
    /\ url_num = 0
    /\ url_soup = EmptySoup
    /\ url_next = FALSE
    /\ url_pc = "build"

\* line 26 (442): page_url = self._build_page_url(url, current_page)
BuildPageUrl ==
    /\ url_pc = "build"
    /\ url_built' = _build_page_url(url_base, url_page)
    /\ url_pc' = "parse"
    /\ UNCHANGED <<url_base, url_page, url_num, url_soup, url_next, urlOthers>>

\* line 386: current_page_num = self._extract_page_number_from_url(current_url)
ExtractPageNumber ==
    /\ url_pc = "parse"
    /\ url_num' = _extract_page_number_from_url(url_built)
    /\ url_pc' = "next"
    /\ UNCHANGED <<url_base, url_page, url_built, url_soup, url_next, urlOthers>>

\* line 63 (490): self._has_next_page(soup, page_url)
HasNextPage ==
    /\ url_pc = "next"
    /\ \E s \in UrlSoups :
         /\ url_soup' = s
         /\ url_next' = _has_next_page(s, url_built)
    /\ url_pc' = "done"
    /\ UNCHANGED <<url_base, url_page, url_built, url_num, urlOthers>>

UrlNext == BuildPageUrl \/ ExtractPageNumber \/ HasNextPage

(***************************************************************************)
(* SpecContainer: _extract_container_products on a page whose elements     *)
(* match up to three of the container selectors.                           *)
(***************************************************************************)
\* a title element without text in front of a heading with text
TileEmptyTitle == (".product-title" :> "") @@ ("h2" :> "Hidden")

\* one element more than the extractor takes, the last one Tile B
LongTileList ==
    [i \in 1..(MaxContainers + 1) |->
        IF i = MaxContainers + 1 THEN TileB
        ELSE IF i = 2 THEN TileUntitled ELSE TileA]

ContainerLists ==
    { <<>>, <<TileUntitled, TileEmptyTitle>>, <<TileB>>,
      <<TileA, TileUntitled, TileEmptyTitle, TileB>>, LongTileList }

ContainerSoups ==
    { [EmptySoup EXCEPT !.containers =
          [sel \in { x \in {".product-item", ".product", ".product-tile"} :
                        lists[x] # <<>> } |-> lists[sel]]] :
        lists \in [{".product-item", ".product", ".product-tile"} -> ContainerLists] }

ContainerInit ==
    /\ ct_soup \in ContainerSoups
    /\ ct_products = <<>>
    /\ ct_pc = "extract"

\* line 45 (461): container_products = self._extract_container_products(...)
ExtractContainerProducts ==
    /\ ct_pc = "extract"
    /\ ct_products' = _extract_container_products(ct_soup)
    /\ ct_pc' = "done"
    /\ UNCHANGED <<ct_soup, ctOthers>>

ContainerNext == ExtractContainerProducts

(***************************************************************************)
(* scrape_products (lines 16-75) as a function of what the site serves:    *)
(* site[n] is the answer to the request for page n, [ok |-> FALSE] for a   *)
(* failed request, else the products the strategies extract from the page  *)
(* and whether the page has a next page.  The run is taken up at page      *)
(* `page` with all_products = products; the result tells how it ends and   *)
(* after how many requests (outcome "unknown": the site does not say what  *)
(* page `fetches` holds).                                                  *)
(***************************************************************************)
RECURSIVE scrape_products(_, _, _)
scrape_products(site, page, products) ==
    IF ~LoopCondition(page)
    THEN [outcome |-> "returned", result |-> products, fetches |-> page - 1]
    ELSE IF page > Len(site)
    THEN [outcome |-> "unknown", result |-> <<>>, fetches |-> page]
    ELSE IF ~site[page].ok
    THEN [outcome |-> "raised", result |-> <<>>, fetches |-> page]
    ELSE IF NoProducts(site[page].products)
    THEN [outcome |-> "returned", result |-> products, fetches |-> page]
    ELSE IF ~site[page].next
    THEN [outcome |-> "returned", result |-> Extend(products, site[page].products),
          fetches |-> page]
    ELSE scrape_products(site, page + 1, Extend(products, site[page].products))

(***************************************************************************)
(* SpecPrice: _clean_price, applied to a text and to its own result.       *)
(***************************************************************************)
MaxPriceLen == 3        \* characters of a price text

PriceChars == {"1", "9", ".", ",", "$", " ", "U"}

\* "$1,299.00 USD"
PriceExample ==
    <<"$", "1", ",", "2", "9", "9", ".", "0", "0", " ", "U", "S", "D">>

PriceTexts ==
    { PyText(chars) : chars \in SeqsUpTo(PriceChars, MaxPriceLen) \cup {PriceExample} }
    \cup {NoText}

PriceInit ==
    /\ price_arg \in PriceTexts
    /\ price_clean = <<>>
    /\ price_again = <<>>
    /\ price_pc = "clean"

\* line 216: product['price'] = self._clean_price(price_text)
CleanPrice ==
    /\ price_pc = "clean"
    /\ price_clean' = _clean_price(price_arg)
    /\ price_pc' = "again"
    /\ UNCHANGED <<price_arg, price_again, priceOthers>>

\* the cleaned text is cleaned once more
CleanPriceAgain ==
    /\ price_pc = "again"
    /\ price_again' = _clean_price(PyText(price_clean))
    /\ price_pc' = "done"
    /\ UNCHANGED <<price_arg, price_clean, priceOthers>>

PriceNext == CleanPrice \/ CleanPriceAgain

(***************************************************************************)
(* AIEnhancer (src/ai_enhancer.py).  A value of a product mapping is       *)
(* tagged: PyText(chars) a str, PyNum a number, PyList(l) a list.  The     *)
(* reply of a text-generation call is CallFailed when the call raises,     *)
(* NoCall when the step makes no call, else the content of the answer.     *)
(***************************************************************************)
MinSummaryLen == 50
MaxSummaryFallbackLen == 200
MinBrandLen == 2
MaxTags == 8

UpperChars ==
    <<"A", "B", "C", "D", "E", "F", "G", "H", "I", "J", "K", "L", "M", "N",
      "O", "P", "Q", "R", "S", "T", "U", "V", "W", "X", "Y", "Z">>
LowerChars ==
    <<"a", "b", "c", "d", "e", "f", "g", "h", "i", "j", "k", "l", "m", "n",
      "o", "p", "q", "r", "s", "t", "u", "v", "w", "x", "y", "z">>

\* text.lower()
Lower(text) ==
    [i \in DOMAIN text |->
        IF \E k \in DOMAIN UpperChars : UpperChars[k] = text[i]
        THEN LowerChars[CHOOSE k \in DOMAIN UpperChars : UpperChars[k] = text[i]]
        ELSE text[i]]

\* bool(value)
IsTrue(value) ==
    CASE value.t = "text" -> value.v # <<>>
      [] value.t = "list" -> value.v # <<>>
      [] value.t = "none" -> FALSE
      [] OTHER -> TRUE

CallFailed == [t |-> "fail", v |-> <<>>]
NoCall == [t |-> "nocall", v |-> <<>>]

\* what a step gives: it raises, or it returns value
Raised == [raised |-> TRUE, value |-> NoText]
Returned(value) == [raised |-> FALSE, value |-> value]

\* lines 52-80.  A description that is no str has no strip() and the handler
\* has no len() of a number: the exception leaves the method.
SummaryCalls(description) ==
    description.t = "text" /\ Len(Strip(description.v)) >= MinSummaryLen

_generate_summary(description, reply) ==
    IF ~IsTrue(description) THEN Returned(description)
    ELSE IF description.t = "num" THEN Raised
    ELSE IF description.t # "text" THEN Returned(description)
    ELSE IF ~SummaryCalls(description) THEN Returned(description)
    ELSE IF reply = CallFailed
    THEN Returned(IF Len(description.v) > MaxSummaryFallbackLen
                  THEN PyText(SubSeq(description.v, 1, MaxSummaryFallbackLen)
                              \o <<".", ".", ".">>)
                  ELSE description)
    ELSE Returned(PyText(Strip(reply.v)))

\* lines 82-111
BrandCalls(brand) == brand.t = "text" /\ Len(Strip(brand.v)) >= MinBrandLen

_normalize_brand(brand, reply) ==
    IF ~BrandCalls(brand) \/ reply = CallFailed THEN brand
    ELSE IF Strip(reply.v) # <<>> THEN PyText(Strip(reply.v)) ELSE brand

\* lines 113-141: the call is made whatever the category is
_normalize_category(category, title, reply) ==
    IF reply = CallFailed THEN category
    ELSE IF Strip(reply.v) # <<>> THEN PyText(Strip(reply.v)) ELSE category

\* lines 143-185: reply is result.get('tags', []) of the parsed answer; a
\* description that cannot be sliced raises inside the try
TagsCalls(product_data) ==
    Get(product_data, "description", PyText(<<>>)).t \in {"text", "list"}

_generate_seo_tags(product_data, reply) ==
    IF ~TagsCalls(product_data) \/ reply = CallFailed THEN <<>>
    ELSE IF reply.t = "list" /\ \A i \in DOMAIN reply.v : reply.v[i].t = "text"
    THEN SubSeq(reply.v, 1, IF Len(reply.v) < MaxTags THEN Len(reply.v) ELSE MaxTags)
    ELSE <<>>

variable_keywords ==
    << <<"s", "i", "z", "e">>,
       <<"c", "o", "l", "o", "r">>,
       <<"v", "a", "r", "i", "a", "n", "t">>,
       <<"o", "p", "t", "i", "o", "n">>,
       <<"s", "e", "l", "e", "c", "t">> >>

grouped_keywords ==
    << <<"b", "u", "n", "d", "l", "e">>,
       <<"s", "e", "t">>,
       <<"p", "a", "c", "k">>,
       <<"c", "o", "l", "l", "e", "c", "t", "i", "o", "n">>,
       <<"k", "i", "t">> >>

\* lines 187-208
_determine_woocommerce_type(product_data) ==
    LET title == Get(product_data, "title", PyText(<<>>))
        description == Get(product_data, "description", PyText(<<>>))
    IN  IF title.t # "text" \/ description.t # "text" THEN "simple"
        ELSE LET text_to_check == Lower(title.v) \o <<" ">> \o Lower(description.v)
             IN  IF \E k \in DOMAIN grouped_keywords :
                        Contains(text_to_check, grouped_keywords[k])
                 THEN "grouped"
                 ELSE IF \E k \in DOMAIN variable_keywords :
                        Contains(text_to_check, variable_keywords[k])
                 THEN "variable"
                 ELSE "simple"

(***************************************************************************)
(* SpecEnhance: enhance_product (lines 12-50), one step per action.        *)
(***************************************************************************)
\* json.dumps(value)
JsonDumps(value) == [t |-> "json", v |-> value]

LongText(n) == PyText([i \in 1..n |-> "a"])

EnhanceTitles == { PyText(<<"M", "u", "g">>), PyText(<<"G", "i", "f", "t", " ", "S", "e", "t">>), PyText(<<"S", "i", "z", "e", " ", "M">>) }

EnhanceDescriptions ==
    { PyText(<<"o", "k">>), LongText(MinSummaryLen + 10),
      LongText(MaxSummaryFallbackLen + 1), PyNum }

EnhanceProducts ==
    { ("title" :> title)
      @@ Opt(description # NoText, "description" :> description)
      @@ Opt(brand, "brand" :> PyText(<<"a", "c", "m", "e">>))
      @@ Opt(category, "category" :> PyText(<<"t", "o", "y", "s">>))
      @@ Opt(images, "image_urls" :> PyList(<<PyText(<<"u">>)>>)) :
        title \in EnhanceTitles,
        description \in EnhanceDescriptions \cup {NoText},
        brand \in BOOLEAN, category \in BOOLEAN, images \in BOOLEAN }

\* the answers a call may give
TextReplies == { CallFailed, PyText(<<" ", "N", "i", "c", "e", " ">>), PyText(<<" ">>) }
TagsReplies ==
    { CallFailed, PyList(<<PyText(<<"m", "u", "g">>)>>), PyList([i \in 1..(MaxTags + 1) |-> PyText(<<"t">>)]),
      PyText(<<"x">>), PyList(<<PyNum>>) }

\* the replies of a step: of its call if it makes one
Replies(calls, replies) == IF calls THEN replies ELSE {NoCall}

\* the step failed: its call raised
Failing(step, reply) == IF reply = CallFailed THEN {step} ELSE {}

EnhanceInit ==
    /\ enh_product \in EnhanceProducts
    /\ enh_original = enh_product
    /\ enh_data = EmptyDict
    /\ enh_pc = "copy"
    /\ enh_outcome = "none"
    /\ enh_result = EmptyDict
    /\ enh_failed = {}

\* line 15
EnhCopy ==
    /\ enh_pc = "copy"
    /\ enh_data' = enh_product
    /\ enh_pc' = "summary"
    /\ UNCHANGED <<enh_product, enh_original, enh_outcome, enh_result, enh_failed,
                   enhOthers>>

\* lines 18-19
EnhSummary ==
    /\ enh_pc = "summary"
    /\ LET description == Get(enh_product, "description", NoText)
       IN  IF ~IsTrue(description)
           THEN /\ enh_pc' = "brand"
                /\ UNCHANGED <<enh_data, enh_failed>>
           ELSE \E reply \in Replies(SummaryCalls(description), TextReplies) :
                  LET r == _generate_summary(description, reply)
                  IN  IF r.raised
                      THEN /\ enh_pc' = "except"
                           /\ enh_failed' = enh_failed \cup {"summary"}
                           /\ UNCHANGED enh_data
                      ELSE /\ enh_data' = SetItem(enh_data, "ai_summary", r.value)
                           /\ enh_failed' = enh_failed \cup Failing("summary", reply)
                           /\ enh_pc' = "brand"
    /\ UNCHANGED <<enh_product, enh_original, enh_outcome, enh_result, enhOthers>>

\* line 22
EnhBrand ==
    /\ enh_pc = "brand"
    /\ LET brand == Get(enh_product, "brand", PyText(<<>>))
       IN  \E reply \in Replies(BrandCalls(brand), TextReplies) :
             /\ enh_data' = SetItem(enh_data, "ai_normalized_brand",
                                    _normalize_brand(brand, reply))
             /\ enh_failed' = enh_failed \cup Failing("brand", reply)
    /\ enh_pc' = "category"
    /\ UNCHANGED <<enh_product, enh_original, enh_outcome, enh_result, enhOthers>>

\* line 23
EnhCategory ==
    /\ enh_pc = "category"
    /\ \E reply \in TextReplies :
         /\ enh_data' = SetItem(enh_data, "ai_normalized_category",
                _normalize_category(Get(enh_product, "category", PyText(<<>>)),
                                    Get(enh_product, "title", PyText(<<>>)), reply))
         /\ enh_failed' = enh_failed \cup Failing("category", reply)
    /\ enh_pc' = "tags"
    /\ UNCHANGED <<enh_product, enh_original, enh_outcome, enh_result, enhOthers>>

\* lines 26-27
EnhTags ==
    /\ enh_pc = "tags"
    /\ \E reply \in Replies(TagsCalls(enh_product), TagsReplies) :
         LET tags == _generate_seo_tags(enh_product, reply)
         IN  /\ enh_data' = SetItem(SetItem(enh_data, "ai_tags", PyList(tags)),
                                    "ai_tags_json", JsonDumps(PyList(tags)))
             /\ enh_failed' = enh_failed
                    \cup Failing("tags", reply)
                    \cup (IF TagsCalls(enh_product) THEN {} ELSE {"tags"})
    /\ enh_pc' = "type"
    /\ UNCHANGED <<enh_product, enh_original, enh_outcome, enh_result, enhOthers>>

\* lines 30-38
EnhTypeAndReturn ==
    /\ enh_pc = "type"
    /\ LET image_urls == Get(enh_product, "image_urls", NoText)
           enhanced_data ==
               SetItem(SetItem(enh_data,
                   "ai_woocommerce_type", _determine_woocommerce_type(enh_product)),
                   "image_urls_json",
                   JsonDumps(IF IsTrue(image_urls) THEN image_urls ELSE PyList(<<>>)))
       IN  /\ enh_data' = enhanced_data
           /\ enh_result' = enhanced_data
    /\ enh_outcome' = "returned"
    /\ enh_pc' = "done"
    /\ UNCHANGED <<enh_product, enh_original, enh_failed, enhOthers>>

\* lines 40-50: the fallback is written into product_data itself
EnhExcept ==
    /\ enh_pc = "except"
    /\ LET fallback ==
               ("ai_summary" :> PyText(<<>>))
            @@ ("ai_tags" :> PyList(<<>>))
            @@ ("ai_tags_json" :> JsonDumps(PyList(<<>>)))
            @@ ("ai_normalized_brand" :> Get(enh_product, "brand", PyText(<<>>)))
            @@ ("ai_normalized_category" :> Get(enh_product, "category", PyText(<<>>)))
            @@ ("ai_woocommerce_type" :> "simple")
            @@ ("image_urls_json" :>
                   JsonDumps(Get(enh_product, "image_urls", PyList(<<>>))))
            @@ enh_product
       IN  /\ enh_product' = fallback
           /\ enh_result' = fallback
    /\ enh_outcome' = "returned"
    /\ enh_pc' = "done"
    /\ UNCHANGED <<enh_original, enh_data, enh_failed, enhOthers>>

EnhanceNext ==
    EnhCopy \/ EnhSummary \/ EnhBrand \/ EnhCategory \/ EnhTags
    \/ EnhTypeAndReturn \/ EnhExcept

(***************************************************************************)
(* SpecExport: export_to_csv, export_to_json and export_to_xml of          *)
(* ExportUtils, called one after another on one export directory.          *)
(***************************************************************************)
MaxExports == 2
MaxClock == 2

NoProductsData == <<>>

ExportFormats == {"csv", "json", "xml"}

ExportProduct(name) == ("title" :> PyText(<<name>>))

ProductsData ==
    { NoProductsData, <<ExportProduct("a")>>, <<ExportProduct("a"), ExportProduct("b")>> }

JobIdentifiers == {1, 2}

\* f'products_{job_identifier}_{datetime.now().strftime("%Y%m%d_%H%M%S")}.ext'
ExportFileName(format, job_identifier, now) ==
    <<"products", job_identifier, now, format>>

\* the directory after a file was written under a name
WriteFile(files, name, content) ==
    { f \in files : f.name # name } \cup { [name |-> name, content |-> content] }

ExportInit ==
    /\ exp_format = "csv"
    /\ exp_products = NoProductsData
    /\ exp_job_identifier = 1
    /\ exp_files = {}
    /\ exp_before = {}
    /\ exp_clock = 0
    /\ exp_calls = 0
    /\ exp_outcome = "none"
    /\ exp_pc = "done"

\* a caller calls one of the exporters (lines 13, 54, 87)
ExportCall ==
    /\ exp_pc = "done"
    /\ exp_calls < MaxExports
    /\ exp_format' \in ExportFormats
    /\ exp_products' \in ProductsData
    /\ exp_job_identifier' \in JobIdentifiers
    /\ exp_before' = exp_files
    /\ exp_calls' = exp_calls + 1
    /\ exp_outcome' = "none"
    /\ exp_pc' = "check"
    /\ UNCHANGED <<exp_files, exp_clock, expOthers>>

\* time passes
ClockTick ==
    /\ exp_clock < MaxClock
    /\ exp_clock' = exp_clock + 1
    /\ UNCHANGED <<exp_format, exp_products, exp_job_identifier, exp_files, exp_before,
                   exp_calls, exp_outcome, exp_pc, expOthers>>

ExportCheckSkipped ==
    /\ exp_pc = "check"
    /\ exp_pc' = "write"
    /\ UNCHANGED <<exp_format, exp_products, exp_job_identifier, exp_files, exp_before,
                   exp_clock, exp_calls, exp_outcome, expOthers>>

\* lines 16-17, 57-58, 90-91
ExportCheck ==
    /\ exp_pc = "check"
    /\ exp_pc' = IF exp_products = NoProductsData THEN "except" ELSE "write"
    /\ UNCHANGED <<exp_format, exp_products, exp_job_identifier, exp_files, exp_before,
                   exp_clock, exp_calls, exp_outcome, expOthers>>

\* lines 20-48, 61-81, 94-126: the file is written and its path returned
ExportWrite ==
    /\ exp_pc = "write"
    /\ exp_files' = WriteFile(exp_files,
                        ExportFileName(exp_format, exp_job_identifier, exp_clock),
                        [format |-> exp_format, products |-> exp_products])
    /\ exp_outcome' = "returned"
    /\ exp_pc' = "done"
    /\ UNCHANGED <<exp_format, exp_products, exp_job_identifier, exp_before, exp_clock,
                   exp_calls, expOthers>>

\* lines 45, 77-78, 123: writing fails, with or without a file left behind
ExportWriteFails ==
    /\ exp_pc = "write"
    /\ \E created \in BOOLEAN :
         exp_files' =
             IF created
             THEN WriteFile(exp_files,
                      ExportFileName(exp_format, exp_job_identifier, exp_clock),
                      [format |-> exp_format, products |-> <<>>])
             ELSE exp_files
    /\ exp_pc' = "except"
    /\ UNCHANGED <<exp_format, exp_products, exp_job_identifier, exp_before, exp_clock,
                   exp_calls, exp_outcome, expOthers>>

\* lines 50-52, 83-85, 128-130
ExportExcept ==
    /\ exp_pc = "except"
    /\ exp_outcome' = "raised"
    /\ exp_pc' = "done"
    /\ UNCHANGED <<exp_format, exp_products, exp_job_identifier, exp_files, exp_before,
                   exp_clock, exp_calls, expOthers>>

ExportNext ==
    ExportCall \/ ClockTick \/ ExportCheck \/ ExportWrite \/ ExportWriteFails
    \/ ExportExcept

(***************************************************************************)
(* SpecImages: each extractor applied to one page element, with and        *)
(* without images.                                                         *)
(***************************************************************************)
\* the values of the image key of a JSON-LD Product
JsonLdImages ==
    { PyStr("a.jpg"), PyStr(""), PyList(<<>>), PyList(<<"a.jpg">>),
      PyList(<<"b.jpg", "a.jpg">>), PyDict("url" :> "a.jpg") }

JsonLdItems ==
    { PyDict(("@type" :> "Product") @@ ("name" :> "P")) }
    \cup { PyDict(("@type" :> "Product") @@ ("name" :> "P") @@ ("image" :> image)) :
             image \in JsonLdImages }

\* the attributes of an img element
ImgAttributes ==
    { EmptyDict, ("src" :> "a.jpg"), ("data-src" :> "b.jpg"),
      ("src" :> "") @@ ("data-src" :> "b.jpg"), ("src" :> ""),
      ("src" :> "https://cdn.example/z.jpg") @@ ("data-src" :> "b.jpg") }

ImageContainers ==
    { TileA, TileUntitled }
    \cup { TileA @@ ("img" :> img) : img \in ImgAttributes }

\* galleries: none, one image, six images, images without a source
Galleries ==
    { <<>>, <<("src" :> "a.jpg")>>,
      [i \in 1..(MaxImages + 1) |-> ("src" :> "a.jpg")],
      <<EmptyDict, ("data-src" :> "b.jpg"), ("src" :> "a.jpg")>>,
      <<EmptyDict, ("src" :> "")>> }

ImageSoups ==
    { [scripts |-> <<>>, containers |-> EmptyDict, texts |-> ("h1" :> "Solo"),
       indicators |-> {}, page_links |-> <<>>,
       images |-> Opt(first # <<>>, ".product-images img" :> first)
                  @@ Opt(second # <<>>, ".product-gallery img" :> second)] :
        first \in Galleries, second \in Galleries }

ImagesInit ==
    /\ img_page \in [data : JsonLdItems, container : ImageContainers, soup : ImageSoups]
    /\ img_strategy = "none"
    /\ img_products = <<>>
    /\ img_pc = "start"

\* line 95: product = self._parse_json_ld_product(data)
ParseJsonLdProduct ==
    /\ img_pc = "start"
    /\ img_strategy' = "json_ld"
    /\ img_products' = _parse_json_ld_product(img_page.data)
    /\ img_pc' = "done"
    /\ UNCHANGED <<img_page, imgOthers>>

\* line 174: product = self._extract_product_from_container(container, base_url)
ExtractFromContainer ==
    /\ img_pc = "start"
    /\ img_strategy' = "container"
    /\ img_products' = _extract_product_from_container(img_page.container)
    /\ img_pc' = "done"
    /\ UNCHANGED <<img_page, imgOthers>>

\* line 50 (466): single_product = self._extract_single_product(soup, page_url)
ExtractSingleProduct ==
    /\ img_pc = "start"
    /\ img_strategy' = "single"
    /\ img_products' = _extract_single_product(img_page.soup)
    /\ img_pc' = "done"
    /\ UNCHANGED <<img_page, imgOthers>>

ImagesNext == ParseJsonLdProduct \/ ExtractFromContainer \/ ExtractSingleProduct

(***************************************************************************)
(* The pause, resume and cancel requests (routes.py, lines 196-241).  Each *)
(* gives the row to commit, the status code of the answer and whether a    *)
(* background thread is started.                                           *)
(***************************************************************************)
Statuses == {"pending", "running", "paused", "completed", "failed", "cancelled"}

\* lines 200-206
PauseRequest(row) ==
    IF row.status = "running"
    THEN [job |-> [row EXCEPT !.status = "paused"], code |-> 200, thread |-> FALSE]
    ELSE [job |-> row, code |-> 400, thread |-> FALSE]

\* lines 214-224
ResumeRequest(row) ==
    IF row.status = "paused"
    THEN [job |-> [row EXCEPT !.status = "running"], code |-> 200, thread |-> TRUE]
    ELSE [job |-> row, code |-> 400, thread |-> FALSE]

\* a cancel that does not look at the status
CancelRequestAnyStatus(row, now) ==
    [job |-> [row EXCEPT !.status = "cancelled", !.completed_at = now],
     code |-> 200, thread |-> FALSE]

\* lines 232-239
CancelRequest(row, now) ==
    IF row.status \in {"running", "paused", "pending"}
    THEN [job |-> [row EXCEPT !.status = "cancelled", !.completed_at = now],
          code |-> 200, thread |-> FALSE]
    ELSE [job |-> row, code |-> 400, thread |-> FALSE]

\* lines 207-208, 225-226, 240-241: the commit raises, the answer is 500
RequestFailed(row) == [job |-> row, code |-> 500, thread |-> FALSE]

(***************************************************************************)
(* SpecRequests: requests for a job in any status, one after another.      *)
(***************************************************************************)
MaxRequests == 4

\* completed_at: 0 is NULL, else the time of the clock
ReqJobs ==
    { [NewJob(status) EXCEPT
          !.completed_at = IF status \in {"completed", "failed", "cancelled"}
                           THEN 1 ELSE 0] : status \in Statuses }

RequestsInit ==
    /\ req_job \in ReqJobs
    /\ req_kind = "none"
    /\ req_before = req_job
    /\ req_answer = 0
    /\ req_started = 0
    /\ req_clock = 2

\* the request is answered with r, or its commit fails
Answered(kind, r) ==
    /\ req_clock < 2 + MaxRequests
    /\ \E ok \in BOOLEAN :
         LET a == IF ok \/ r.code # 200 THEN r ELSE RequestFailed(req_job)
         IN  /\ req_job' = a.job
             /\ req_answer' = a.code
             /\ req_started' = IF a.thread THEN req_started + 1 ELSE req_started
    /\ req_kind' = kind
    /\ req_before' = req_job
    /\ req_clock' = req_clock + 1
    /\ UNCHANGED reqOthers

PauseHandled == Answered("pause", PauseRequest(req_job))

ResumeHandled == Answered("resume", ResumeRequest(req_job))

CancelHandled == Answered("cancel", CancelRequest(req_job, req_clock))

RequestsNext == PauseHandled \/ ResumeHandled \/ CancelHandled

(***************************************************************************)
(* SpecRun: one job from start_scrape on.  run_scraping_job (routes.py,    *)
(* lines 243-377) runs in the thread start_scrape started and in every     *)
(* thread resume_job starts, each with its own session; pause, resume and  *)
(* cancel requests arrive at any time.  A step is the code up to and with  *)
(* one commit.  Of the row the status, the completion mark and the three   *)
(* counters are kept; the store accepts every write.  Of a thread: pc, the *)
(* scraper's current_page, data (len(all_products), then                   *)
(* len(products_data)) and the index of the enhancement loop.              *)
(***************************************************************************)
MaxThreads == 2
MaxRecords == 4

Threads == 1..MaxThreads

\* the products of the pages; the last page carries no next link
Sites == { <<>>, <<1>>, <<2>>, <<1, 1>> }

RECURSIVE Sum(_)
Sum(counts) == IF counts = <<>> THEN 0 ELSE Head(counts) + Sum(Tail(counts))

NoThread == [pc |-> "idle", page |-> 1, data |-> 0, index |-> 0]
NewThread == [NoThread EXCEPT !.pc = "start"]

RunInit ==
    /\ run_job = [status |-> "pending", completed_at |-> FALSE,
                  total_products_found |-> 0, products_processed |-> 0,
                  products_ai_enhanced |-> 0]
    /\ run_site \in Sites
    /\ run_threads = [t \in Threads |-> IF t = 1 THEN NewThread ELSE NoThread]
    /\ run_products = 0

\* the thread goes on at pc with the row written
Goes(t, thread, row) ==
    /\ run_threads' = [run_threads EXCEPT ![t] = thread]
    /\ run_job' = row
    /\ UNCHANGED <<run_site, run_products, runOthers>>

\* the thread ends
Ends(t, row) == Goes(t, NoThread, row)

\* lines 247-273: the job is set running and the scraper called
RunBegin(t) ==
    /\ run_threads[t].pc = "start"
    /\ Goes(t, [run_threads[t] EXCEPT !.pc = "poll"],
            [run_job EXCEPT !.status = "running"])

\* scraper.py, lines 426-439: the poll before a page
RunPoll(t) ==
    /\ run_threads[t].pc = "poll"
    /\ Goes(t, [run_threads[t] EXCEPT
                   !.pc = IF IsStopped(run_job.status) THEN "after" ELSE "fetch"],
            run_job)

\* scraper.py, lines 446-447: the request fails, the scraper raises
RunFetchFails(t) ==
    /\ run_threads[t].pc = "fetch"
    /\ Goes(t, [run_threads[t] EXCEPT !.pc = "except"], run_job)

\* scraper.py, lines 442-498: the page is fetched; its products are counted
\* on the row; the next page, or the end of the loop
RunFetch(t) ==
    /\ run_threads[t].pc = "fetch"
    /\ LET thread == run_threads[t]
           found == IF thread.page <= Len(run_site) THEN run_site[thread.page] ELSE 0
       IN  IF found = 0
           THEN Goes(t, [thread EXCEPT !.pc = "final"], run_job)
           ELSE Goes(t, [thread EXCEPT
                            !.data = thread.data + found,
                            !.page = IF thread.page < Len(run_site)
                                     THEN thread.page + 1 ELSE thread.page,
                            !.pc = IF thread.page < Len(run_site)
                                   THEN "poll" ELSE "final"],
                     [run_job EXCEPT !.total_products_found = thread.data + found])

\* scraper.py, lines 501-508: the final update and the return
RunFinal(t) ==
    /\ run_threads[t].pc = "final"
    /\ Goes(t, [run_threads[t] EXCEPT !.pc = "after"],
            [run_job EXCEPT !.total_products_found = run_threads[t].data])

\* lines 276-292: after the scraper returned
RunAfter(t) ==
    /\ run_threads[t].pc = "after"
    /\ IF JobStopped(run_job.status) THEN Ends(t, run_job)
       ELSE IF run_threads[t].data = 0
       THEN Goes(t, [run_threads[t] EXCEPT !.pc = "no_products"], run_job)
       ELSE Goes(t, [run_threads[t] EXCEPT !.pc = "check", !.index = 1],
                 [run_job EXCEPT !.total_products_found = run_threads[t].data])

\* lines 281-286
RunNoProducts(t) ==
    /\ run_threads[t].pc = "no_products"
    /\ Ends(t, [run_job EXCEPT !.status = "failed", !.completed_at = TRUE])

\* lines 297-306: the status is read before each product
RunCheck(t) ==
    /\ run_threads[t].pc = "check"
    /\ IF run_job.status = "cancelled" THEN Ends(t, run_job)
       ELSE Goes(t, [run_threads[t] EXCEPT
                        !.pc = IF run_job.status = "paused" THEN "wait"
                               ELSE "process"],
                 run_job)

\* lines 302-306: the wait loop sees that the job is paused no more
RunWait(t) ==
    /\ run_threads[t].pc = "wait"
    /\ run_job.status # "paused"
    /\ IF run_job.status = "cancelled" THEN Ends(t, run_job)
       ELSE Goes(t, [run_threads[t] EXCEPT !.pc = "process"], run_job)

\* lines 310-317
RunProcess(t) ==
    /\ run_threads[t].pc = "process"
    /\ Goes(t, [run_threads[t] EXCEPT !.pc = "enhance"],
            [run_job EXCEPT !.products_processed = run_threads[t].index])

\* lines 320-325
RunEnhance(t) ==
    /\ run_threads[t].pc = "enhance"
    /\ Goes(t, [run_threads[t] EXCEPT !.pc = "store"],
            [run_job EXCEPT !.products_ai_enhanced = run_threads[t].index])

\* lines 295 and 355-357: the loop goes on with the next product, or ends
NextProduct(thread) ==
    IF thread.index < thread.data
    THEN [thread EXCEPT !.pc = "check", !.index = thread.index + 1]
    ELSE [thread EXCEPT !.pc = "complete"]

\* lines 320 and 355-357: the product's enhancement raises; it is skipped
RunEnhanceFails(t) ==
    /\ run_threads[t].pc = "enhance"
    /\ Goes(t, NextProduct(run_threads[t]), run_job)

\* a loop that stays at the product it has stored
RunStoreAgain(t) ==
    /\ run_threads[t].pc = "store"
    /\ run_threads' = [run_threads EXCEPT ![t] =
                          [run_threads[t] EXCEPT !.pc = "check"]]
    /\ run_products' = IF run_products < MaxRecords THEN run_products + 1
                       ELSE run_products
    /\ UNCHANGED <<run_job, run_site, runOthers>>

\* lines 328-353: the Product row is added (counted up to MaxRecords); the
\* next product, or the end of the loop
RunStore(t) ==
    /\ run_threads[t].pc = "store"
    /\ run_threads' = [run_threads EXCEPT ![t] = NextProduct(run_threads[t])]
    /\ run_products' = IF run_products < MaxRecords THEN run_products + 1
                       ELSE run_products
    /\ UNCHANGED <<run_job, run_site, runOthers>>

\* lines 360-364
RunComplete(t) ==
    /\ run_threads[t].pc = "complete"
    /\ Ends(t, [run_job EXCEPT !.status = "completed", !.completed_at = TRUE])

\* lines 368-377
RunExcept(t) ==
    /\ run_threads[t].pc = "except"
    /\ Ends(t, [run_job EXCEPT !.status = "failed", !.completed_at = TRUE])

\* a request that acts: the row is committed, the thread started
RunRequest(r) ==
    /\ r.code = 200
    /\ run_job' = r.job
    /\ IF r.thread
       THEN \E t \in Threads :
              /\ run_threads[t].pc = "idle"
              /\ \A u \in Threads : u < t => run_threads[u].pc # "idle"
              /\ run_threads' = [run_threads EXCEPT ![t] = NewThread]
       ELSE UNCHANGED run_threads
    /\ UNCHANGED <<run_site, run_products, runOthers>>

RunPause == RunRequest(PauseRequest(run_job))

RunResume == RunRequest(ResumeRequest(run_job))

RunCancel == RunRequest(CancelRequest(run_job, TRUE))

\* a step of run_scraping_job in thread t
RunStep(t) ==
    \/ RunBegin(t) \/ RunPoll(t) \/ RunFetchFails(t) \/ RunFetch(t) \/ RunFinal(t)
    \/ RunAfter(t) \/ RunNoProducts(t) \/ RunCheck(t) \/ RunWait(t)
    \/ RunProcess(t) \/ RunEnhance(t) \/ RunEnhanceFails(t) \/ RunStore(t)
    \/ RunComplete(t) \/ RunExcept(t)

RunNext ==
    \/ \E t \in Threads : RunStep(t)
    \/ RunPause \/ RunResume \/ RunCancel

(***************************************************************************)
(* The specifications.  Each leaves the other's variables as they start.   *)
(***************************************************************************)
LdIdle ==
    /\ ld_scripts = <<>> /\ ld_idx = 0 /\ ld_products = <<>> /\ ld_pc = "returned"

ScrapeIdle ==
    /\ mode = "plain" /\ pc = "done" /\ current_page = 1 /\ all_products = <<>>
    /\ page_products = <<>> /\ soup = EmptySoup /\ job = NewJob("none")
    /\ outcome = "none" /\ result = <<>> /\ error = "" /\ fetched = <<>>
    /\ yields = <<>> /\ signals = <<>> /\ ran = {} /\ polled = [page |-> 0, status |-> ""]
    /\ store_failures = 0
    /\ rich_pages = 0

UrlIdle ==
    /\ url_base = <<>> /\ url_page = 1 /\ url_built = <<>> /\ url_num = 0
    /\ url_soup = EmptySoup /\ url_next = FALSE /\ url_pc = "done"

PriceIdle ==
    /\ price_arg = NoText /\ price_clean = <<>> /\ price_again = <<>>
    /\ price_pc = "done"

CtIdle == ct_soup = EmptySoup /\ ct_products = <<>> /\ ct_pc = "done"

EnhIdle ==
    /\ enh_product = EmptyDict /\ enh_original = EmptyDict /\ enh_data = EmptyDict
    /\ enh_pc = "done" /\ enh_outcome = "none" /\ enh_result = EmptyDict
    /\ enh_failed = {}

ExpIdle ==
    /\ exp_format = "csv" /\ exp_products = NoProductsData
    /\ exp_job_identifier = 1 /\ exp_files = {}
    /\ exp_before = {} /\ exp_clock = 0 /\ exp_calls = 0
    /\ exp_outcome = "none" /\ exp_pc = "done"

ImgIdle ==
    /\ img_page = EmptyDict /\ img_strategy = "none" /\ img_products = <<>>
    /\ img_pc = "done"

ReqIdle ==
    /\ req_job = NewJob("none") /\ req_kind = "none" /\ req_before = NewJob("none")
    /\ req_answer = 0 /\ req_started = 0 /\ req_clock = 0

RunIdle ==
    /\ run_job = NewJob("none") /\ run_site = <<>> /\ run_threads = <<>>
    /\ run_products = 0

JsonLdInit ==
    LdInit /\ ScrapeIdle /\ UrlIdle /\ PriceIdle /\ CtIdle /\ EnhIdle /\ ExpIdle
    /\ ImgIdle /\ ReqIdle /\ RunIdle

SpecJsonLd == JsonLdInit /\ [][LdNext]_vars

ScrapeStart ==
    ScrapeInit /\ LdIdle /\ UrlIdle /\ PriceIdle /\ CtIdle /\ EnhIdle /\ ExpIdle
    /\ ImgIdle /\ ReqIdle /\ RunIdle

SpecScrape == ScrapeStart /\ [][ScrapeNext]_vars

UrlStart ==
    UrlInit /\ LdIdle /\ ScrapeIdle /\ PriceIdle /\ CtIdle /\ EnhIdle /\ ExpIdle
    /\ ImgIdle /\ ReqIdle /\ RunIdle

SpecUrl == UrlStart /\ [][UrlNext]_vars

PriceStart ==
    PriceInit /\ LdIdle /\ ScrapeIdle /\ UrlIdle /\ CtIdle /\ EnhIdle /\ ExpIdle
    /\ ImgIdle /\ ReqIdle /\ RunIdle

SpecPrice == PriceStart /\ [][PriceNext]_vars

ContainerStart ==
    ContainerInit /\ LdIdle /\ ScrapeIdle /\ UrlIdle /\ PriceIdle /\ EnhIdle
    /\ ExpIdle /\ ImgIdle /\ ReqIdle /\ RunIdle

SpecContainer == ContainerStart /\ [][ContainerNext]_vars

EnhanceStart ==
    EnhanceInit /\ LdIdle /\ ScrapeIdle /\ UrlIdle /\ PriceIdle /\ CtIdle /\ ExpIdle
    /\ ImgIdle /\ ReqIdle /\ RunIdle

SpecEnhance == EnhanceStart /\ [][EnhanceNext]_vars

ExportStart ==
    ExportInit /\ LdIdle /\ ScrapeIdle /\ UrlIdle /\ PriceIdle /\ CtIdle /\ EnhIdle
    /\ ImgIdle /\ ReqIdle /\ RunIdle

SpecExport == ExportStart /\ [][ExportNext]_vars

ImagesStart ==
    ImagesInit /\ LdIdle /\ ScrapeIdle /\ UrlIdle /\ PriceIdle /\ CtIdle /\ EnhIdle
    /\ ExpIdle /\ ReqIdle /\ RunIdle

SpecImages == ImagesStart /\ [][ImagesNext]_vars

RequestsStart ==
    RequestsInit /\ LdIdle /\ ScrapeIdle /\ UrlIdle /\ PriceIdle /\ CtIdle
    /\ EnhIdle /\ ExpIdle /\ ImgIdle /\ RunIdle

SpecRequests == RequestsStart /\ [][RequestsNext]_vars

RunStart ==
    RunInit /\ LdIdle /\ ScrapeIdle /\ UrlIdle /\ PriceIdle /\ CtIdle /\ EnhIdle
    /\ ExpIdle /\ ImgIdle /\ ReqIdle

SpecRun == RunStart /\ [][RunNext]_vars

\* the sites of the runs followed to their end: no product, or one
FairSites == { site \in Sites : Sum(site) <= 1 }

RunFairStart == RunStart /\ run_site \in FairSites

\* every thread that can take a step takes one; the requests come as they may
SpecRunFair ==
    RunFairStart /\ [][RunNext]_vars /\ \A t \in Threads : WF_vars(RunStep(t))

(***************************************************************************)
(* Properties of the pagination loop (SpecScrape).                         *)
(***************************************************************************)

\* the scraper call has ended, by a return or by an exception
Ended == outcome # "none"

\* every request was answered with a page, and the last one is page n
LastFetched(n) == Len(fetched) = n /\ Len(yields) = n

\* a request failed (it is then the last one issued)
FetchFailed == Len(fetched) > Len(yields)

\* the last page fetched carries a continuation signal
LastPageContinues ==
    Len(yields) > 0 /\ _has_next_page(soup, page_url(fetched[Len(yields)]))

\* the pages are requested in order, each once
FetchedInOrder == \A i \in DOMAIN fetched : fetched[i] = i

\* C1: in any run of scrape_products or scrape_products_with_progress at
\* most 10 page fetches are issued, and a run that reaches the cap (every
\* page had products and a continuation signal) returns the products of the
\* 10 pages instead of raising.
C1_PageCap ==
    /\ Len(fetched) <= max_pages
    /\ (Ended /\ current_page > max_pages) =>
          /\ outcome = "returned"
          /\ LastFetched(max_pages)
          /\ result = Flatten(yields)

\* the part of C1 that holds in every run: never more than 10 requests
PageCapFetches == Len(fetched) <= max_pages /\ FetchedInOrder

\* C2: when page N yields no product, page N+1 is never fetched, whatever
\* continuation signal page N carries.
C2_EmptyPageStops ==
    \A i \in DOMAIN yields :
        yields[i] = <<>> => \A j \in DOMAIN fetched : fetched[j] <= fetched[i]

\* C2's case: page N >= 2 had no product but a continuation signal, and the
\* run is over
C2_Witness ==
    /\ Ended
    /\ Len(yields) >= 2
    /\ yields[Len(yields)] = <<>>
    /\ LastPageContinues

\* C3: when the poll before page N of scrape_products_with_progress reads
\* 'cancelled' or 'paused', the call returns exactly the products of pages
\* 1..N-1 and no further page is fetched.
C3_StopAtPoll ==
    polled.status \in {"cancelled", "paused"} =>
        /\ outcome = "returned"
        /\ LastFetched(polled.page - 1)
        /\ result = Flatten(yields)

\* C3's case: the poll before page 3 read 'paused' and two pages of products
\* are returned
C3_Witness ==
    /\ polled = [page |-> 3, status |-> "paused"]
    /\ Len(result) >= 2
    /\ pc = "job_done"

\* C4: no failed write to the job store makes scrape_products_with_progress
\* raise; the call still returns the accumulated products.
C4_StoreFailureIgnored ==
    (Ended /\ store_failures > 0 /\ ~FetchFailed) =>
        /\ outcome = "returned"
        /\ result = all_products

\* C5 (the returned list): every product scrape_products or
\* scrape_products_with_progress returns has a non-empty title.
C5_ReturnedTitled ==
    outcome = "returned" => \A i \in DOMAIN result : result[i]["title"] # ""

\* C7: the products of a fetched page come from one strategy: JSON-LD if it
\* yields any; else the containers; the single-product extractor runs only if
\* both yielded nothing and the page is page 1.
C7_StrategyPriority ==
    Len(yields) > 0 =>
        LET n == Len(yields)
            ld == _extract_json_ld_products(soup.scripts)
            co == _extract_container_products(soup)
            si == _extract_single_product(soup)
        IN  /\ page_products = yields[n]
            /\ "json_ld" \in ran
            /\ ld # <<>> => page_products = ld /\ ran = {"json_ld"}
            /\ ld = <<>> => "container" \in ran
            /\ (ld = <<>> /\ co # <<>>) =>
                   page_products = co /\ ran = {"json_ld", "container"}
            /\ (ld = <<>> /\ co = <<>> /\ n = 1) =>
                   page_products = si /\ ran = {"json_ld", "container", "single"}
            /\ (ld = <<>> /\ co = <<>> /\ n > 1) =>
                   page_products = <<>> /\ ran = {"json_ld", "container"}

\* C7's case: a page with JSON-LD products and product tiles
C7_Witness ==
    /\ Len(yields) > 0
    /\ _extract_json_ld_products(soup.scripts) # <<>>
    /\ _extract_container_products(soup) # <<>>
    /\ page_products = _extract_json_ld_products(soup.scripts)

\* C7's other case: page 2 has a product heading only, and yields nothing
SingleOnlyOnPageOne ==
    /\ Len(yields) = 2
    /\ _extract_single_product(soup) # <<>>
    /\ page_products = <<>>

\* C9: a failed fetch of page N ends the run: no page is fetched twice, none
\* after N, the call raises instead of returning, and run_scraping_job sets
\* the job 'failed' with the error message.
C9_FetchFailureFatal ==
    /\ FetchedInOrder
    /\ FetchFailed =>
          /\ Len(fetched) = Len(yields) + 1
          /\ outcome = "raised" /\ error = "FetchError" /\ result = <<>>
          /\ pc \in {"done", "job_except", "job_done"}
          /\ pc = "job_done" => /\ job.status = "failed"
                                /\ job.error_message = "FetchError"

\* C9's case: the fetch of page 3 failed after two pages of products and the
\* job is marked failed
C9_Witness ==
    /\ Len(fetched) = 3 /\ Len(yields) = 2
    /\ all_products # <<>>
    /\ pc = "job_done"
    /\ job.status = "failed"

\* C10: a page without products ends the pagination and is no error: the
\* run returns the products of the earlier pages, the empty list if the page
\* is page 1.
C10_EmptyPageReturns ==
    (Ended /\ ~FetchFailed /\ Len(yields) > 0 /\ yields[Len(yields)] = <<>>) =>
        /\ outcome = "returned"
        /\ result = Flatten(yields)
        /\ Len(yields) = 1 => result = <<>>

\* C10 in scrape_products, where no job row is written
EmptyPageReturnsPlain == mode = "plain" => C10_EmptyPageReturns

\* every fetched page yielded products
AllPagesYield == \A i \in DOMAIN yields : yields[i] # <<>>

ServedSite ==
    [n \in 1..Len(fetched) |->
        IF n > Len(yields)
        THEN [ok |-> FALSE, products |-> <<>>, next |-> FALSE]
        ELSE [ok |-> TRUE, products |-> yields[n],
              next |-> n \in DOMAIN signals /\ signals[n]]]

\* C17: when no poll reads 'cancelled' or 'paused' and no progress write
\* fails (or the job has no row), scrape_products_with_progress requests the
\* pages scrape_products requests on the same site, in the same order, and
\* ends as it ends: with the same product list, or raising.
C17_SameAsPlain ==
    (Ended /\ store_failures = 0 /\ ~IsStopped(polled.status)) =>
        LET plain == scrape_products(ServedSite, 1, <<>>)
        IN  /\ FetchedInOrder
            /\ Len(fetched) = plain.fetches
            /\ outcome = plain.outcome
            /\ outcome = "returned" => result = plain.result

\* C17's case: a job that stays running, three pages of products
C17_Witness ==
    /\ mode = "progress" /\ Ended /\ store_failures = 0
    /\ polled = [page |-> 3, status |-> "running"]
    /\ LastFetched(3)
    /\ AllPagesYield
    /\ result = yields[1] \o yields[2] \o yields[3]

\* C17's other case: the job has no row
SameAsPlainWithoutRow ==
    /\ mode = "norow" /\ Ended
    /\ LastFetched(2)
    /\ result = yields[1] \o yields[2]
    /\ result # <<>>

(***************************************************************************)
(* Properties of the JSON-LD extractor (SpecJsonLd).                       *)
(***************************************************************************)

\* the products of the scripts json.loads accepts, in document order
RECURSIVE WellFormedProducts(_)
WellFormedProducts(scripts) ==
    IF scripts = <<>> THEN <<>>
    ELSE (IF Head(scripts).body = "json" THEN ScriptProducts(Head(scripts)) ELSE <<>>)
         \o WellFormedProducts(Tail(scripts))

\* C5 (the extractor): a JSON-LD Product object without a name is not emitted.
C5_JsonLdTitled ==
    \A i \in DOMAIN ld_products : ld_products[i]["title"] # ""

RecordKeys ==
    {"title", "description", "brand", "sku", "price", "currency", "availability",
     "main_image_url", "image_urls", "rating", "review_count"}

\* the mapping of section 4.1 for the fields the object carries
MapsAsStated(d, p) ==
    /\ p["title"] = Get(d, "name", "")
    /\ p["description"] = Get(d, "description", "")
    /\ p["sku"] = Get(d, "sku", "")
    /\ p["brand"] = BrandOf(d)
    /\ "offers" \in DOMAIN d =>
          /\ {"price", "currency", "availability"} \subseteq DOMAIN p
          /\ p["price"] = Get(OffersOf(d).v, "price", "")
          /\ p["currency"] = Get(OffersOf(d).v, "priceCurrency", "")
          /\ p["availability"] = Get(OffersOf(d).v, "availability", "")
    /\ "image" \in DOMAIN d =>
          /\ "main_image_url" \in DOMAIN p
          /\ p["image_urls"] = (IF d["image"].t = "str" THEN <<d["image"].v>>
                                ELSE d["image"].v)
          /\ p["main_image_url"] = p["image_urls"][1]
    /\ "aggregateRating" \in DOMAIN d =>
          /\ {"rating", "review_count"} \subseteq DOMAIN p
          /\ p["rating"] = Get(d["aggregateRating"].v, "ratingValue", PyNone)
          /\ p["review_count"] = Get(d["aggregateRating"].v, "reviewCount", PyNone)

\* C6: a JSON-LD object of type Product is mapped as stated, and a field
\* whose source is absent is still in the record, with its default.
C6_RecordShape ==
    (ld_pc = "returned" /\ Len(ld_scripts) = 1 /\ ld_scripts[1].body = "json"
        /\ ld_scripts[1].data.t = "dict"
        /\ Get(ld_scripts[1].data.v, "@type", PyNone) = "Product") =>
        /\ Len(ld_products) = 1
        /\ MapsAsStated(ld_scripts[1].data.v, ld_products[1])
        /\ RecordKeys \subseteq DOMAIN ld_products[1]

\* the mapping alone, for the fields that are present
MapsPresentFields ==
    (ld_pc = "returned" /\ Len(ld_scripts) = 1 /\ ld_scripts[1].body = "json"
        /\ ld_scripts[1].data.t = "dict"
        /\ Get(ld_scripts[1].data.v, "@type", PyNone) = "Product") =>
        /\ Len(ld_products) = 1
        /\ MapsAsStated(ld_scripts[1].data.v, ld_products[1])

\* C8: a script block that cannot be parsed is skipped and the scan goes on:
\* the extractor returns the products of all well-formed blocks, in order.
C8_BadBlocksSkipped ==
    ld_pc = "returned" =>
        /\ ld_idx = Len(ld_scripts)
        /\ ld_products = WellFormedProducts(ld_scripts)

\* what the scan does return: the blocks before the first script without a body
ScanMatchesExtractor ==
    ld_pc = "returned" => ld_products = _extract_json_ld_products(ld_scripts)

(***************************************************************************)
(* Properties of the page URLs (SpecUrl).                                  *)
(***************************************************************************)

\* the URL has a query string
HasQuery(url) == \E i \in DOMAIN url : url[i] = "?"

\* the URL without its trailing slash, if it has one
WithoutTrailingSlash(url) ==
    IF url # <<>> /\ url[Len(url)] = "/" THEN SubSeq(url, 1, Len(url) - 1) ELSE url

ShopCatPage3 == ShopCat \o <<"/", "p", "a", "g", "e", "/", "3", "/">>
ShopCatQueryPage3 == ShopCatQuery \o <<"&", "p", "a", "g", "e", "=", "3">>

\* C12: _build_page_url returns the base URL for page 1; for page N > 1 it
\* returns base&page=N when the base has a query string, and otherwise the
\* base, one '/' (the base's own trailing slash, or one added) and page/N/;
\* https://shop.example/cat, 3 gives https://shop.example/cat/page/3/ and
\* https://shop.example/cat?x=1, 3 gives https://shop.example/cat?x=1&page=3.
C12_PageUrl ==
    url_pc # "build" =>
        /\ url_page = 1 => url_built = url_base
        /\ (url_page > 1 /\ HasQuery(url_base)) =>
               url_built = url_base \o <<"&", "p", "a", "g", "e", "=">>
                                    \o StrOfNat(url_page)
        /\ (url_page > 1 /\ ~HasQuery(url_base)) =>
               url_built = WithoutTrailingSlash(url_base)
                           \o <<"/", "p", "a", "g", "e", "/">>
                           \o StrOfNat(url_page) \o <<"/">>
        /\ (url_base = ShopCat /\ url_page = 3) => url_built = ShopCatPage3
        /\ (url_base = ShopCatQuery /\ url_page = 3) => url_built = ShopCatQueryPage3

\* C12's case: page 7 of a base URL that ends in '/'
C12_Witness ==
    /\ url_pc # "build"
    /\ url_page = 7
    /\ url_base = <<"s", "/", "c", "/">>
    /\ url_built = <<"s", "/", "c", "/", "p", "a", "g", "e", "/", "7", "/">>

\* the two URLs of the claim are built
PageUrlExamples ==
    /\ url_pc # "build" /\ url_page = 3
    /\ url_base = ShopCatQuery /\ url_built = ShopCatQueryPage3

\* an element of the page matches one of the next-link indicators
IndicatorFound(s) == s.indicators \cap { next_indicators[i] : i \in DOMAIN next_indicators } # {}

\* the URL shows one of the page patterns: /page/, ?page=, &page=, ?paged=,
\* &paged=, followed by a digit
HasPagePattern(url) ==
    \E i \in DOMAIN url :
       \E literal \in { <<"/", "p", "a", "g", "e", "/">>,
                        <<"?", "p", "a", "g", "e", "=">>,
                        <<"&", "p", "a", "g", "e", "=">>,
                        <<"?", "p", "a", "g", "e", "d", "=">>,
                        <<"&", "p", "a", "g", "e", "d", "=">> } :
          /\ StartsAt(url, i, literal)
          /\ i + Len(literal) <= Len(url)
          /\ IsDigit(url[i + Len(literal)])

\* C13: _has_next_page returns true if and only if an element matches a
\* next-link indicator or the href of some pagination link encodes a page
\* number strictly greater than the one parsed from the current page URL; a
\* URL without a page pattern counts as page 1.
C13_HasNextPage ==
    url_pc = "done" =>
        /\ url_next <=>
             \/ IndicatorFound(url_soup)
             \/ \E i \in DOMAIN url_soup.page_links :
                  /\ "href" \in DOMAIN url_soup.page_links[i]
                  /\ url_soup.page_links[i]["href"] # <<>>
                  /\ _extract_page_number_from_url(url_soup.page_links[i]["href"])
                        > url_num
        /\ ~HasPagePattern(url_built) => url_num = 1
        /\ \A i \in DOMAIN url_soup.page_links :
              ("href" \in DOMAIN url_soup.page_links[i]
                  /\ ~HasPagePattern(url_soup.page_links[i]["href"])) =>
                 _extract_page_number_from_url(url_soup.page_links[i]["href"]) = 1

\* C13's case: no indicator, the page is page 2 and a link leads to page 3
C13_Witness ==
    /\ url_pc = "done"
    /\ url_soup.indicators = {}
    /\ url_soup.page_links = PaginationLinks
    /\ url_num = 2
    /\ url_next

\* C13's other case: links to the pages 1 to 3 on page 3, and no indicator
NoHigherLink ==
    /\ url_pc = "done"
    /\ url_soup.indicators = {}
    /\ url_soup.page_links = PaginationLinks
    /\ url_num = 3
    /\ ~url_next

(***************************************************************************)
(* Properties of the container extractor (SpecContainer).                  *)
(***************************************************************************)

\* the positions of product_selectors whose selector matches an element
MatchingSelectors(s) ==
    { i \in DOMAIN product_selectors :
        /\ product_selectors[i] \in DOMAIN s.containers
        /\ s.containers[product_selectors[i]] # <<>> }

\* the elements of the first selector that matches, the first 20 at most
UsedContainers(s) ==
    IF MatchingSelectors(s) = {} THEN <<>>
    ELSE LET first == CHOOSE i \in MatchingSelectors(s) :
                         \A j \in MatchingSelectors(s) : i <= j
             containers == s.containers[product_selectors[first]]
         IN  [i \in 1..(IF Len(containers) < MaxContainers
                        THEN Len(containers) ELSE MaxContainers) |-> containers[i]]

\* the first title selector that matches in the element matches a text
HasTitle(element) ==
    \E k \in DOMAIN container_title_selectors :
       /\ container_title_selectors[k] \in DOMAIN element
       /\ element[container_title_selectors[k]] # ""
       /\ \A j \in 1..(k - 1) : container_title_selectors[j] \notin DOMAIN element

\* C14: the container extractor uses the elements of the first selector of
\* its list that matches, the first 20 of them at most, in document order,
\* and no element of a later selector: it returns the titled ones of these,
\* so nothing when none of them has a title.
C14_FirstSelectorOnly ==
    ct_pc = "done" =>
        LET used == UsedContainers(ct_soup)
            titles == [i \in DOMAIN used |->
                          FirstText(used[i], container_title_selectors, "")]
        IN  /\ Len(used) <= MaxContainers
            /\ [i \in DOMAIN ct_products |-> ct_products[i]["title"]]
                   = SelectSeq(titles, LAMBDA t : t # "")
            /\ (\A i \in DOMAIN used : ~HasTitle(used[i])) => ct_products = <<>>

\* C14's case: the first selector matches elements without a title, a later
\* one matches tiles with a title
C14_Witness ==
    /\ ct_pc = "done"
    /\ ".product-item" \in DOMAIN ct_soup.containers
    /\ ct_soup.containers[".product-item"] = <<TileUntitled, TileEmptyTitle>>
    /\ ".product-tile" \in DOMAIN ct_soup.containers
    /\ ct_soup.containers[".product-tile"] = <<TileB>>
    /\ ct_products = <<>>

\* C14's other case: 21 elements match, the products of the first 20 are returned
FirstTwentyOnly ==
    /\ ct_pc = "done"
    /\ UsedContainers(ct_soup) = SubSeq(LongTileList, 1, MaxContainers)
    /\ Len(ct_products) = MaxContainers - 1
    /\ \A i \in DOMAIN ct_products : ct_products[i]["title"] = "Tile A"

\* C15: every record the container extractor returns has a non-empty title;
\* an element in which no title selector matches, or whose matched title
\* text is empty, contributes no record.
C15_ContainerTitled ==
    ct_pc = "done" =>
        /\ \A i \in DOMAIN ct_products : ct_products[i]["title"] # ""
        /\ Len(ct_products)
              = Cardinality({ i \in DOMAIN UsedContainers(ct_soup) :
                                HasTitle(UsedContainers(ct_soup)[i]) })

\* C15's case: elements without a title element and with an empty one among
\* elements with a title
C15_Witness ==
    /\ ct_pc = "done"
    /\ UsedContainers(ct_soup) = <<TileA, TileUntitled, TileEmptyTitle, TileB>>
    /\ Len(ct_products) = 2
    /\ ct_products[1]["title"] = "Tile A"
    /\ ct_products[2]["title"] = "Tile B"

(***************************************************************************)
(* Properties of _clean_price (SpecPrice).                                 *)
(***************************************************************************)

\* a digit, a period or a comma
IsPriceChar(c) == IsDigit(c) \/ c = "." \/ c = ","

\* kept is text without some of its characters: kept[i] = text[at[i]] for
\* increasing positions at[i] that take every price character of text
IsPriceCharsOf(kept, text) ==
    LET positions == { i \in DOMAIN text : IsPriceChar(text[i]) }
    IN  /\ Len(kept) = Cardinality(positions)
        /\ \A i \in DOMAIN kept :
              \E p \in positions :
                 /\ Cardinality({ q \in positions : q <= p }) = i
                 /\ kept[i] = text[p]

\* C18: _clean_price removes every character that is not a digit, a period
\* or a comma and nothing else; cleaning the result again changes nothing; a
\* text of digits, periods and commas is returned as it is, the empty text
\* gives the empty text, and "$1,299.00 USD" gives "1,299.00".
C18_CleanPrice ==
    price_pc = "done" =>
        /\ IsPriceCharsOf(price_clean, price_arg.v)
        /\ price_again = price_clean
        /\ (\A i \in DOMAIN price_arg.v : IsPriceChar(price_arg.v[i])) =>
               price_clean = price_arg.v
        /\ price_arg.v = <<>> => price_clean = <<>>
        /\ price_arg.v = PriceExample =>
               price_clean = <<"1", ",", "2", "9", "9", ".", "0", "0">>

\* C18's case: a price between a currency symbol and a blank
C18_Witness ==
    /\ price_pc = "done"
    /\ price_arg = PyText(<<"$", "9", " ">>)
    /\ price_clean = <<"9">>
    /\ price_again = <<"9">>

\* the example of the claim is cleaned
PriceExampleCleaned ==
    /\ price_pc = "done"
    /\ price_arg = PyText(PriceExample)
    /\ price_clean = <<"1", ",", "2", "9", "9", ".", "0", "0">>

(***************************************************************************)
(* enhance_product                                                         *)
(***************************************************************************)
\* the result holds every key of the product it was given, with its value
KeepsOriginalValues ==
    \A k \in DOMAIN enh_original :
        k \in DOMAIN enh_result /\ enh_result[k] = enh_original[k]

\* the fallback values of lines 43-49
IsFallback ==
    /\ KeepsOriginalValues
    /\ enh_result["ai_normalized_brand"] = Get(enh_original, "brand", PyText(<<>>))
    /\ enh_result["ai_normalized_category"] =
           Get(enh_original, "category", PyText(<<>>))
    /\ enh_result["ai_tags"] = PyList(<<>>)
    /\ enh_result["ai_woocommerce_type"] = "simple"

\* C19: enhance_product never raises to its caller: when any internal step
\* fails (a text-generation call or any other error), it returns a mapping
\* that keeps the original product values, with ai_normalized_brand and
\* ai_normalized_category equal to the original brand and category, ai_tags
\* empty and ai_woocommerce_type equal to 'simple'.
C19_EnhanceFallback ==
    enh_pc = "done" =>
        /\ enh_outcome = "returned"
        /\ enh_failed # {} => IsFallback

\* enhance_product returns to its caller for every product mapping, with the
\* original values, whichever steps fail
EnhanceReturns ==
    enh_pc = "done" => enh_outcome = "returned" /\ KeepsOriginalValues

\* an error that escapes a step gives the fallback of lines 43-49
EscapedErrorFallsBack ==
    (enh_pc = "done" /\ enh_data = enh_original) => IsFallback

\* a failed text-generation call replaces only the value of its own step
EnhFailedCallKeepsType ==
    /\ enh_pc = "done"
    /\ enh_failed = {"summary", "brand", "category", "tags"}
    /\ enh_result["ai_woocommerce_type"] = "grouped"

(***************************************************************************)
(* The exporters                                                           *)
(***************************************************************************)
\* a call of an exporter with an empty product sequence is over
EmptyExportOver ==
    exp_pc = "done" /\ exp_calls > 0 /\ exp_products = NoProductsData

\* C20: export_to_csv, export_to_json and export_to_xml each raise an error
\* when given an empty product sequence, and in that case no export file is
\* created: the export directory holds the files it held before the call.
C20_EmptyExportRaises ==
    EmptyExportOver => exp_outcome = "raised" /\ exp_files = exp_before

\* C20's case: an exporter has written a file, then the XML exporter is given
\* an empty sequence and raises, and the directory holds that file only
C20_Witness ==
    /\ EmptyExportOver
    /\ exp_format = "xml"
    /\ exp_outcome = "raised"
    /\ exp_before # {}
    /\ exp_files = exp_before

\* the same for the CSV exporter
EmptyCsvExportRaised ==
    EmptyExportOver /\ exp_format = "csv" /\ exp_outcome = "raised"

\* the same for the JSON exporter
EmptyJsonExportRaised ==
    EmptyExportOver /\ exp_format = "json" /\ exp_outcome = "raised"

(***************************************************************************)
(* The poll of scrape_products_with_progress                               *)
(***************************************************************************)
\* the steps of one loop iteration after its poll
InIteration == pc \in {"page_update", "fetch", "found_update", "next_check"}

\* C21: in scrape_products_with_progress the job state is read once per loop
\* iteration, before that page's fetch: every step of an iteration follows
\* the poll of its own page, which saw the job not stopped, and no page is
\* fetched without its poll; a stop request that arrives after the poll for
\* page N leaves page N fetched and accumulated and is acted on at the poll
\* before page N+1 only, where the products of the pages 1..N are returned;
\* a run whose last poll saw no stop returns normally, with the polled page
\* fetched, whatever the job's status has become.
C21_PolledAtPageBoundary ==
    mode = "progress" =>
        /\ InIteration => polled.page = current_page /\ ~IsStopped(polled.status)
        /\ Len(fetched) <= polled.page
        /\ outcome = "returned" =>
               /\ result = Flatten(yields)
               /\ Len(fetched) = IF IsStopped(polled.status)
                                 THEN polled.page - 1 ELSE polled.page

\* C21's case: a cancel arrives after the poll for page 1; page 1 is fetched
\* and kept, and the poll before page 2 returns its products
C21_Witness ==
    /\ mode = "progress"
    /\ outcome = "returned"
    /\ polled = [page |-> 2, status |-> "cancelled"]
    /\ LastFetched(1)
    /\ result = yields[1]
    /\ result # <<>>

\* a pause arrives after the only poll of a one-page run: the scraper returns
\* the page's products without having acted on it
StopAfterLastPollIgnored ==
    /\ mode = "progress"
    /\ outcome = "returned"
    /\ job.status = "paused"
    /\ polled = [page |-> 1, status |-> "running"]
    /\ LastFetched(1)
    /\ result = yields[1]
    /\ result # <<>>
    /\ job.total_pages = 1

(***************************************************************************)
(* total_pages                                                             *)
(***************************************************************************)
\* scrape_products_with_progress has returned from its final update
ReturnedNormally ==
    mode = "progress" /\ outcome = "returned" /\ ~IsStopped(polled.status)

\* C26: when scrape_products_with_progress returns normally without having
\* observed 'cancelled' or 'paused', the job's total_pages equals the number
\* of pages fetched in that run and never exceeds the page cap of 10,
\* including the case where the run stopped because the cap was reached.
C26_TotalPages ==
    ReturnedNormally =>
        /\ job.total_pages = Len(fetched)
        /\ job.total_pages <= max_pages

\* total_pages is the number of pages fetched in every run that the cap did
\* not end
TotalPagesBelowCap ==
    (ReturnedNormally /\ current_page <= max_pages) =>
        job.total_pages = Len(fetched)

\* a run that the cap ended leaves total_pages one above the pages fetched
TotalPagesAtCap ==
    (ReturnedNormally /\ current_page > max_pages) =>
        /\ Len(fetched) = max_pages
        /\ job.total_pages = max_pages + 1

(***************************************************************************)
(* The page number of a built page URL                                     *)
(***************************************************************************)
\* the page number of the built URL has been parsed
PageNumberParsed == url_pc \in {"next", "done"}

\* C27: for every base URL and every page counter N in 1..10, the page number
\* that _extract_page_number_from_url parses from _build_page_url(base, N)
\* equals N; this includes base URLs that already contain a /page/K, ?page=K
\* or ?paged=K component.
C27_PageNumberRoundTrip ==
    PageNumberParsed => url_num = url_page

\* the round trip holds for every base URL without a page component
RoundTripWithoutPageComponent ==
    (PageNumberParsed /\ ~HasPagePattern(url_base)) => url_num = url_page

\* a base URL with /page/2 gives page 2 whatever page was built
PageComponentShadowsCounter ==
    /\ PageNumberParsed
    /\ url_base = <<"s", "/", "p", "a", "g", "e", "/", "2">>
    /\ url_page = 3
    /\ url_num = 2

(***************************************************************************)
(* The images of an emitted product                                        *)
(***************************************************************************)
\* main_image_url is present and is the first of a non-empty image_urls
MainImageFirst(product) ==
    product["image_urls"] # <<>> =>
        /\ "main_image_url" \in DOMAIN product
        /\ product["main_image_url"] = product["image_urls"][1]

\* C30: for every product emitted by any of the three strategies, whenever
\* image_urls is non-empty main_image_url is present and equals the first
\* element of image_urls; the container extractor emits at most one image
\* URL and the single-product extractor at most five.
C30_MainImageFirst ==
    img_pc = "done" =>
        \A i \in DOMAIN img_products :
            /\ MainImageFirst(img_products[i])
            /\ img_strategy = "container" => Len(img_products[i]["image_urls"]) <= 1
            /\ img_strategy = "single" =>
                   Len(img_products[i]["image_urls"]) <= MaxImages

\* C30's case: the single-product extractor on a gallery of six images: the
\* first five are emitted, the main one the first of them
C30_Witness ==
    /\ img_pc = "done"
    /\ img_strategy = "single"
    /\ ImgElements(img_page.soup, ".product-images img") = <<>>
    /\ Len(ImgElements(img_page.soup, ".product-gallery img")) = MaxImages + 1
    /\ Len(img_products) = 1
    /\ Len(img_products[1]["image_urls"]) = MaxImages
    /\ img_products[1]["main_image_url"] = UrlJoin(ImagePageUrl, "a.jpg")

\* a container with a lazy-loaded image emits that one image
ContainerImageEmitted ==
    /\ img_pc = "done"
    /\ img_strategy = "container"
    /\ Len(img_products) = 1
    /\ img_products[1]["image_urls"] = <<UrlJoin(ImagePageUrl, "b.jpg")>>
    /\ img_products[1]["main_image_url"] = UrlJoin(ImagePageUrl, "b.jpg")

\* a JSON-LD Product with a list of images keeps the list, the first the main
JsonLdImagesEmitted ==
    /\ img_pc = "done"
    /\ img_strategy = "json_ld"
    /\ Len(img_products) = 1
    /\ img_products[1]["image_urls"] = <<"b.jpg", "a.jpg">>
    /\ img_products[1]["main_image_url"] = "b.jpg"

(***************************************************************************)
(* The pause, resume and cancel requests                                   *)
(***************************************************************************)
\* the statuses in which a request acts, and the status it sets
ActsOn(kind) ==
    CASE kind = "pause" -> {"running"}
      [] kind = "resume" -> {"paused"}
      [] kind = "cancel" -> {"running", "paused", "pending"}
      [] OTHER -> {}

Sets(kind) ==
    CASE kind = "pause" -> "paused"
      [] kind = "resume" -> "running"
      [] kind = "cancel" -> "cancelled"
      [] OTHER -> "none"

\* C25: pause_job changes a job's status (to 'paused') only when it is
\* 'running', resume_job (to 'running') only when it is 'paused', and
\* cancel_job (to 'cancelled') only when it is 'running', 'paused' or
\* 'pending'; in every other status the request is answered with an error
\* and the job record, including status and completed_at, is left unchanged,
\* so a 'completed' or 'failed' job is never changed by these requests.
C25_RequestsGuarded ==
    req_kind # "none" =>
        /\ req_job.status # req_before.status =>
               /\ req_before.status \in ActsOn(req_kind)
               /\ req_job.status = Sets(req_kind)
        /\ req_before.status \notin ActsOn(req_kind) =>
               /\ req_answer = 400
               /\ req_job = req_before
        /\ req_before.status \in {"completed", "failed"} => req_job = req_before
        /\ req_answer = 200 =>
               /\ req_before.status \in ActsOn(req_kind)
               /\ req_job.status = Sets(req_kind)

\* C25's case: a cancel request for a completed job is answered with an
\* error and leaves the row, with its completion time, as it was
C25_Witness ==
    /\ req_kind = "cancel"
    /\ req_before.status = "completed"
    /\ req_answer = 400
    /\ req_job = req_before
    /\ req_job.completed_at = 1

\* a pause, a resume and a cancel that act, one after another
RequestsActed ==
    /\ req_kind = "cancel"
    /\ req_answer = 200
    /\ req_started = 1
    /\ req_before.status = "running"
    /\ req_job.status = "cancelled"
    /\ req_job.completed_at = req_clock - 1

(***************************************************************************)
(* The life of a job (SpecRun)                                             *)
(***************************************************************************)
Terminal == run_job.status \in {"completed", "failed", "cancelled"}

\* the background runs that are alive
ActiveRuns == { t \in Threads : run_threads[t].pc # "idle" }

\* C22: once cancel_job has set a job's status to 'cancelled', the status
\* stays 'cancelled' forever: under every interleaving with the job's
\* background threads, no later step of run_scraping_job overwrites it.
C22_CancelledStays ==
    [][run_job.status = "cancelled" => run_job'.status = "cancelled"]_vars

\* C23: at every moment at most one background run of run_scraping_job is
\* active for a given job, under every interleaving of the requests with the
\* background thread.
C23_OneActiveRun == Cardinality(ActiveRuns) <= 1

\* C24: the number of Product records stored for the job never exceeds the
\* number of products a single scrape of its URL returns.
C24_StoredOnce == run_products <= Sum(run_site)

\* C28: at every point of a job's life the progress counters satisfy
\* products_ai_enhanced <= products_processed <= total_products_found.
C28_CountersOrdered ==
    /\ run_job.products_ai_enhanced <= run_job.products_processed
    /\ run_job.products_processed <= run_job.total_products_found

\* C29: every started job eventually reaches a terminal status, provided
\* every pause is eventually followed by a resume or a cancel.
C29_Terminates ==
    ([]<>(run_job.status # "paused")) => <>Terminal

\* C29, with the pauses requested finitely often: a started job whose status
\* is from some moment on never 'paused' again eventually reaches a terminal
\* status.
C29_TerminatesAfterLastPause ==
    (<>[](run_job.status # "paused")) => <>Terminal

\* C29's case: the job was paused and resumed in the enhancement phase (the
\* products of two runs are stored), is completed, and no run is left
C29_Witness ==
    /\ run_job.status = "completed"
    /\ ActiveRuns = {}
    /\ run_products > Sum(run_site)
    /\ run_site \in FairSites

\* a job cancelled while it was paused stays cancelled when its runs are over
CancelledWhilePaused ==
    /\ run_job.status = "cancelled"
    /\ ActiveRuns = {}
    /\ run_job.products_processed > 0

=============================================================================
